---- MODULE Spec2Model ----
(***************************************************************************)
(* A model of the smolflow node/flow execution engine (FlowFramework):     *)
(* BaseNode / Node (retry) / Flow / BatchFlow and the sequential           *)
(* asynchronous variants.  The engine is modelled as a small-step          *)
(* interpreter with an explicit call stack: one frame per _run /           *)
(* _runAsync / _orchestrate activation, one action per lifecycle step.     *)
(***************************************************************************)
EXTENDS Integers, Sequences, FiniteSets, TLC

(* ------------------------------ bounds -------------------------------- *)
MaxRetries == 2
MaxBatch == 2

(* ------------------------------ values -------------------------------- *)
\* JS null / undefined, as a result of a phase or of a successor lookup
Null == "<null>"
\* what a plain-object property read yields for a key inherited from
\* Object.prototype ("constructor", "toString", ...): a truthy non-node
ProtoValue == "<Object.prototype member>"
ProtoKeys == {"constructor"}
NoErr == [name |-> "none", node |-> "", i |-> 0]

NodeIds == {"F", "G", "A", "B", "C"}
Labels == {"default", "go", "loop", "done", "", "constructor", "nope"}
Falsy == {"", Null}

\* parameter mappings: a fixed key universe, Absent marks a missing key
Keys == {"id", "tag"}
Absent == <<"absent", 0, 0>>
BaseVal == <<"base", 0, 0>>
EmptyMap == [k \in Keys |-> Absent]
BaseMap == [k \in Keys |-> BaseVal]
\* { ...a, ...b }
Merge(a, b) == [k \in Keys |-> IF b[k] # Absent THEN b[k] ELSE a[k]]
\* the i-th parameter mapping of the batch stored in shared context r
BP(r, i) == [id |-> <<"P", r, i>>, tag |-> Absent]

Ctxs == {1, 2}

\* arguments of the wiring calls that are not of the expected type
Undefined == "<undefined>"
ANumber == "<number>"
APlainObject == "<plain object>"
\* handlers: [console.warn]
DefaultHandler == "console.warn"
HandlerIds == {DefaultHandler, "h1"}

(* ------------------------------ classes ------------------------------- *)
\* instanceof AsyncNode
IsAsyncNode(c) == c \in {"AsyncNode", "AsyncBatchNode", "AsyncParallelBatchNode"}
IsAsyncFlow(c) == c \in {"AsyncFlow", "AsyncBatchFlow", "AsyncParallelBatchFlow"}
IsFlow(c) == c \in {"Flow", "BatchFlow"} \/ IsAsyncFlow(c)
IsBatchFlow(c) == c \in {"BatchFlow", "AsyncBatchFlow", "AsyncParallelBatchFlow"}
IsParallelFlow(c) == c = "AsyncParallelBatchFlow"
IsBatchNode(c) == c \in {"BatchNode", "AsyncBatchNode", "AsyncParallelBatchNode"}
\* (a variant in which AsyncBatchNode also starts all its items at once)
IsParallelNodeAnyAsync(c) == c \in {"AsyncBatchNode", "AsyncParallelBatchNode"}
IsParallelNode(c) == c = "AsyncParallelBatchNode"
\* (a variant in which every class can be run synchronously)
RunThrowsNever(c) == FALSE

\* classes whose _run is AsyncNode._run (own, inherited or mixed in)
RunThrows(c) == IsAsyncNode(c) \/ IsAsyncFlow(c)

VARIABLES
  cfg,       \* the application: classes, hooks, retry settings (fixed per behaviour)
  nodes,     \* canonical objects: [id -> [params (ref), curRetry, startNode]]
  succ,      \* canonical successor maps: [id -> [label -> node id]]
  pheap,     \* parameter mapping objects, by reference (index)
  shared,    \* the two shared contexts
  stack,     \* activation frames, innermost last
  exc,       \* the error being propagated, or NoErr
  warnings,  \* messages passed to warnings.warn during the current run
  trace,     \* lifecycle events of the current run
  run,       \* index of the current / last top-level run (0: none yet)
  outcome,   \* how each finished top-level run ended
  handlers,  \* warnings.handlers: the registered handler functions, in order
  delivered, \* the messages each handler function has been called with
  helpers,   \* the ConditionalTransition objects created so far
  timers     \* the number of setTimeout callbacks scheduled and not yet run

vars == <<cfg, nodes, succ, pheap, shared, stack, exc, warnings, trace, run, outcome,
          handlers, delivered, helpers, timers>>

(* --------------------------- successor lookup -------------------------- *)
\* curr.successors[key]: an own key, else a key inherited from
\* Object.prototype (successors is a plain object literal), else undefined
SuccGet(s, key) ==
  IF key \in DOMAIN s THEN s[key]
  ELSE IF key \in ProtoKeys THEN ProtoValue
  ELSE Null

\* this.successors[action] = node
SuccPut(s, a, node) == [l \in DOMAIN s \cup {a} |-> IF l = a THEN node ELSE s[l]]

\* (a variant without the default)
NextActionNoDefault(action) == action

\* action || "default"
NextAction(action) == IF action \in Falsy THEN "default" ELSE action

\* (a variant that drops the action and follows "default")
GetNextNodeIgnoresAction(s, action) == SuccGet(s, "default")

\* Flow.getNextNode: the value returned
GetNextNode(s, action) == SuccGet(s, NextAction(action))

\* Flow.getNextNode: whether warnings.warn is called
\* (!next && Object.keys(curr.successors).length > 0)
GetNextWarns(s, action) == GetNextNode(s, action) = Null /\ DOMAIN s # {}

(* ------------------------------- frames -------------------------------- *)
NoPrep == [t |-> "null", n |-> 0]

Frame(kind, id, clone, pref, cr, async, pc, hb) ==
  [kind |-> kind, id |-> id, clone |-> clone, params |-> pref, curRetry |-> cr,
   async |-> async, pc |-> pc, hbase |-> hb,
   prepRes |-> NoPrep, execRes |-> Null, err |-> NoErr,
   bi |-> 1, curr |-> Null, lastAction |-> Null,
   results |-> <<>>, branches |-> <<>>, stash |-> Null]

Top == stack[Len(stack)]
Pop(stk) == SubSeq(stk, 1, Len(stk) - 1)
SetTop(stk, fr) == [stk EXCEPT ![Len(stk)] = fr]

\* (a variant in which an object run by a flow keeps using its own params)
InstParamsCanonical(fr) == nodes[fr.id].params
\* this.params / this.curRetry of the instance a frame runs on: the clone's
\* own fields, or the canonical object's when it is run directly
InstParams(fr) == IF fr.clone THEN fr.params ELSE nodes[fr.id].params
InstCurRetry(fr) == IF fr.clone THEN fr.curRetry ELSE nodes[fr.id].curRetry
InstStash(fr) == IF fr.clone THEN fr.stash ELSE nodes[fr.id].stash
\* this.curRetry = c on the instance a frame runs on
WithCurRetry(fr, c) == [fr EXCEPT !.curRetry = IF fr.clone THEN c ELSE @]
\* (a variant in which the counter is always written to the canonical object)
NodesWithCurRetryCanonical(fr, c) == [nodes EXCEPT ![fr.id].curRetry = c]
NodesWithCurRetry(fr, c) == IF fr.clone THEN nodes ELSE [nodes EXCEPT ![fr.id].curRetry = c]

\* a lifecycle event: the hook or engine step, the object, an index (attempt
\* or batch position), the value passed in, the value produced, the
\* parameter mapping involved
Event(ev, node, i, v, x, m) == [ev |-> ev, node |-> node, i |-> i, v |-> v, x |-> x, m |-> m]

ExecErr(id, i) == [name |-> "ExecError", node |-> id, i |-> i]
\* the error exec throws for the b-th item of a batch node
ItemErr(id, b) == [name |-> "ExecError", node |-> id, i |-> b]
TypeErr(id) == [name |-> "TypeError", node |-> id, i |-> 0]
AsyncSyncErr(id) == [name |-> "AsyncNode cannot be run synchronously", node |-> id, i |-> 0]

(* ---------------------------- the application -------------------------- *)
NoSucc == [l \in {} |-> Null]
OwnVal == <<"own", 0, 0>>
OwnMap == [k \in Keys |-> OwnVal]
Ref(id) == CASE id = "F" -> 1 [] id = "G" -> 2 [] id = "A" -> 3 [] id = "B" -> 4 [] id = "C" -> 5

Graphs == {"branch", "loop", "nested", "solo", "lone", "nostart"}
\* "wrongentry": asynchronous classes whose top object the application
\* calls through run() instead of runAsync()
Families == {"sync", "async", "mixed", "bad", "wrongentry"}
\* applications with a parallel batch flow, or with a standalone batch node
\* (BatchNode, AsyncBatchNode, AsyncParallelBatchNode)
BatchFamilies == {"parallel", "bnode", "abnode", "pbnode"}
AsyncFamilies == {"async", "wrongentry", "parallel"}

\* the class of every object of the application
ClsOf(family, batch) ==
  [id \in NodeIds |->
    CASE id = "F" -> IF family = "parallel" THEN "AsyncParallelBatchFlow"
                     ELSE IF family \in {"sync", "bad"}
                     THEN (IF batch THEN "BatchFlow" ELSE "Flow")
                     ELSE (IF batch THEN "AsyncBatchFlow" ELSE "AsyncFlow")
      [] id = "G" -> IF family \in AsyncFamilies THEN "AsyncFlow" ELSE "Flow"
      [] id = "B" -> IF family = "sync" THEN "Node" ELSE "AsyncNode"
      [] id = "A" /\ family = "bnode" -> "BatchNode"
      [] id = "A" /\ family = "abnode" -> "AsyncBatchNode"
      [] id = "A" /\ family = "pbnode" -> "AsyncParallelBatchNode"
      [] OTHER    -> IF family \in AsyncFamilies THEN "AsyncNode" ELSE "Node"]

\* the wiring made by the application's next() / start() calls
\* the nodes of the example search agent: createAgentFlow's decideNode,
\* searchNode and answerNode
DecideNode == "A"
SearchNode == "B"
AnswerNode == "C"

SuccOf(graph) ==
  [id \in NodeIds |->
    CASE graph \in {"branch", "solo"} /\ id = "A" -> ("go" :> "B") @@ ("default" :> "C")
      [] graph = "loop" /\ id = "A" -> ("loop" :> "B") @@ ("done" :> "C")
      [] graph = "loop" /\ id = "B" -> ("loop" :> "A")
      [] graph = "nested" /\ id = "A" -> ("go" :> "B")
      [] graph = "nested" /\ id = "G" -> ("go" :> "C")
      \* createAgentFlow: decideNode.next(searchNode, 'search'),
      \* decideNode.next(answerNode, 'answer'), searchNode.next(decideNode, 'decide')
      [] graph = "agent" /\ id = DecideNode -> ("search" :> SearchNode) @@ ("answer" :> AnswerNode)
      [] graph = "agent" /\ id = SearchNode -> ("decide" :> DecideNode)
      [] OTHER -> NoSucc]

StartOf(graph) ==
  [id \in NodeIds |->
    CASE id = "F" /\ graph \in {"branch", "loop"} -> "A"
      \* new FlowFramework.AsyncFlow(decideNode)
      [] id = "F" /\ graph = "agent" -> DecideNode
      [] id = "F" /\ graph = "nested" -> "G"
      [] id = "G" /\ graph = "nested" -> "A"
      [] OTHER -> Null]

\* what the overridden post hooks of the application return
PostKindOf(graph) ==
  [id \in NodeIds |->
    CASE graph \in {"branch", "nested", "solo"} /\ id = "A" -> "any"
      [] graph = "loop" /\ id = "A" -> "loopDone"
      [] graph = "loop" /\ id = "B" -> "loop"
      [] graph = "agent" /\ id = DecideNode -> "decide"
      [] graph = "agent" /\ id = SearchNode -> "searched"
      [] graph = "agent" /\ id = AnswerNode -> "done"
      [] OTHER -> "default"]

\* the labels an "any" post hook chooses among: a registered label, the
\* empty and absent results, "default" itself, an unregistered label, and
\* an unregistered label that names a member of Object.prototype
PostChoicesOf(graph, batch) ==
  IF graph \in {"branch", "solo"} /\ ~batch
  THEN {"go", "default", "", Null, "nope", "constructor"}
  ELSE {"go", "", "nope"}
BatchChoices == {[t |-> "arr", n |-> n] : n \in 0..MaxBatch}
                  \cup {[t |-> "null", n |-> 0], [t |-> "obj", n |-> 0]}

\* a value that is undefined, or a number
NotSet == [t |-> "undefined", n |-> 0]
Num(n) == [t |-> "number", n |-> n]

Config(graph, family, batch, k, fb, hook) ==
  [graph |-> graph, family |-> family,
   top |-> IF graph \in {"solo", "lone"} THEN "A" ELSE "F",
   cls |-> ClsOf(family, batch),
   maxRetries |-> k,
   fallback |-> fb, fbVal |-> "go",
   mayFail |-> IF graph = "loop" THEN {} ELSE {"A"},
   execVal |-> [id \in NodeIds |->
                 [i \in 0..MaxRetries |-> IF id = "B" \/ (id = "A" /\ i > 0) THEN "go" ELSE Null]],
   postKind |-> PostKindOf(graph),
   postChoices |-> PostChoicesOf(graph, batch),
   prepKind |-> [id \in NodeIds |-> IF graph = "loop" /\ id = "A" THEN "count"
                                    ELSE IF graph = "agent" /\ id = DecideNode THEN "decide"
                                    ELSE "none"],
   hook |-> [id \in NodeIds |-> IF id = "A" THEN hook ELSE "none"],
   wait |-> 0, items |-> NoPrep, failN |-> [i \in 1..MaxBatch |-> 0],
   maxAgentSearchAttempts |-> NotSet]

Configs(hooks) ==
  { Config(g, f, b, k, fb, h) :
      g \in Graphs, f \in Families, b \in BOOLEAN, k \in 0..MaxRetries,
      fb \in {"raise", "value"}, h \in hooks }

\* combinations kept: batch flows over the branch and nested graphs, the
\* sync-flow-drives-async-node mix over the branch graph, maxRetries = 0 for
\* the standalone node, parameter-writing hooks with single-attempt nodes
ValidConfig(c) ==
  /\ IsBatchFlow(c.cls["F"]) => c.graph \in {"branch", "nested"}
  /\ c.family = "bad" => c.graph = "branch"
  /\ c.maxRetries = 0 => c.graph = "solo"
  /\ c.hook["A"] # "none" => c.maxRetries = 1
  /\ c.graph \in {"solo", "lone"} =>
       c.family \in {"sync", "async", "wrongentry"} /\ ~IsBatchFlow(c.cls["F"])
  /\ c.graph = "lone" => c.maxRetries = 1 /\ c.hook["A"] = "none"
  /\ c.family = "wrongentry" =>
       /\ c.graph \in {"branch", "solo", "lone"} /\ ~IsBatchFlow(c.cls["F"])
       /\ c.maxRetries = 1 /\ c.fallback = "raise" /\ c.hook["A"] = "none"
  /\ c.graph \in {"loop", "nostart"} => c.fallback = "raise" /\ c.hook["A"] = "none"

\* the params the application sets on its top object; over the nested
\* graph the key "tag" is set on the inner flow and the nodes only
TopParams(graph) ==
  IF graph = "nested" THEN [id |-> BaseVal, tag |-> Absent] ELSE BaseMap

\* config.maxAgentSearchAttempts in ConfigManager.DEFAULTS, and the literal
\* of handleAskQuestion
DefaultMaxAgentSearchAttempts == 3
\* handleAskQuestion: parseInt(config.maxAgentSearchAttempts, 10) || 3
ConfiguredMax(x) ==
  IF x.t = "number" /\ x.n # 0 THEN x.n ELSE DefaultMaxAgentSearchAttempts

InitFrom(cs) ==
  /\ cfg \in cs
  /\ nodes = [id \in NodeIds |->
                [params |-> Ref(id), curRetry |-> 0, startNode |-> StartOf(cfg.graph)[id],
                 stash |-> Null]]
  /\ succ = SuccOf(cfg.graph)
  /\ pheap = [i \in 1..5 |-> IF i = Ref(cfg.top) THEN TopParams(cfg.graph) ELSE OwnMap]
  /\ \E b1 \in BatchChoices :
       /\ (~IsBatchFlow(cfg.cls[cfg.top])) => b1 = [t |-> "null", n |-> 0]
       /\ shared = [r \in Ctxs |->
                     [counter |-> 0, seen |-> <<>>,
                      batch |-> IF r = 1 THEN b1 ELSE [t |-> "arr", n |-> 1],
                      \* handleAskQuestion: shared.searchAttempts = 0;
                      \* shared.maxAgentSearchAttempts = ...; the key
                      \* maxSearchAttempts is never assigned
                      searchAttempts |-> 0,
                      maxAgentSearchAttempts |->
                        IF cfg.graph = "agent"
                        THEN Num(ConfiguredMax(cfg.maxAgentSearchAttempts))
                        ELSE NotSet,
                      maxSearchAttempts |-> NotSet]]
  /\ stack = <<>>
  /\ exc = NoErr
  /\ warnings = <<>>
  /\ trace = <<>>
  /\ run = 0
  /\ outcome = <<>>
  /\ handlers = <<DefaultHandler>>
  /\ delivered = [h \in HandlerIds |-> <<>>]
  /\ helpers = <<>>
  /\ timers = 0

\* nodes constructed with a delay between attempts:
\* new AsyncNode(maxRetries, wait) / new Node(maxRetries, wait) with wait > 0
WaitConfigs ==
  { [Config(g, f, FALSE, k, fb, "none") EXCEPT !.wait = 1] :
      g \in {"solo", "branch"}, f \in {"async", "sync"}, k \in 2..MaxRetries,
      fb \in {"raise", "value"} }

\* nodes constructed with a negative number of attempts: new Node(-1),
\* new AsyncNode(-1) (the constructors take any value)
NegativeRetryConfigs ==
  { Config("solo", f, FALSE, -1, fb, "none") : f \in {"sync", "async"}, fb \in {"raise", "value"} }

InitWith(hooks) ==
  InitFrom({c \in Configs(hooks) : ValidConfig(c)} \cup WaitConfigs \cup NegativeRetryConfigs)

\* applications whose hooks read this.params, or replace it with setParams
Init == InitWith({"none", "set"})

(* ------------------------------- actions ------------------------------- *)
Running == stack # <<>> /\ exc = NoErr

\* (a variant in which Flow._run does not pass the orchestration's result on)
DeliverDropsOrchResult(stk, v) ==
  LET par == stk[Len(stk)] IN
  IF par.kind = "orch"
  THEN SetTop(stk, [par EXCEPT !.lastAction = v, !.pc = "next"])
  ELSE IF par.pc \in {"join", "detached"}
  THEN SetTop(stk, [par EXCEPT !.branches[par.bi] = [st |-> "done", stk |-> <<>>]])
  ELSE IF par.pc = "iter" \/ (par.pc = "wait" /\ IsBatchFlow(cfg.cls[par.id]))
  THEN SetTop(stk, [par EXCEPT !.bi = @ + 1, !.pc = "iter"])
  ELSE SetTop(stk, [par EXCEPT !.execRes = Null, !.pc = "post"])

\* callee return: the value reaches the frame that made the call
Deliver(stk, v) ==
  LET par == stk[Len(stk)] IN
  IF par.kind = "orch"
  THEN \* lastAction = currentNode._run(shared)
       SetTop(stk, [par EXCEPT !.lastAction = v, !.pc = "next"])
  ELSE IF par.pc \in {"join", "detached"}
  THEN \* AsyncParallelBatchFlow._runAsync: one promise of Promise.all is fulfilled
       SetTop(stk, [par EXCEPT !.branches[par.bi] = [st |-> "done", stk |-> <<>>]])
  ELSE IF par.pc = "iter" \/ (par.pc = "wait" /\ IsBatchFlow(cfg.cls[par.id]))
  THEN \* BatchFlow._run: the value of this._orchestrate(...) is dropped
       SetTop(stk, [par EXCEPT !.bi = @ + 1, !.pc = "iter"])
  ELSE \* Flow._run: const o = this._orchestrate(shared)
       SetTop(stk, [par EXCEPT !.execRes = v, !.pc = "post"])

\* the top frame returns v to its caller, or to the application
Return(fr, v) ==
  /\ pheap' = SubSeq(pheap, 1, fr.hbase)
  /\ IF Len(stack) = 1
     THEN /\ stack' = <<>>
          /\ outcome' = Append(outcome, [st |-> "returned", v |-> v, err |-> NoErr])
     ELSE /\ stack' = Deliver(Pop(stack), v)
          /\ UNCHANGED outcome

\* (a variant that never finds a successor)
HasSuccessorsNever(s) == FALSE

\* Object.keys(this.successors).length > 0
HasSuccessors(s) == DOMAIN s # {}

\* BaseNode.run / AsyncNode.runAsync / AsyncFlow.runAsync called by the
\* application on its top object, with the next shared context
CallRun ==
  /\ stack = <<>> /\ exc = NoErr /\ run < Cardinality(Ctxs)
  /\ LET id == cfg.top
         c == cfg.cls[id]
         viaRun == cfg.family = "wrongentry"
         warn == (viaRun \/ ~IsAsyncFlow(c)) /\ HasSuccessors(succ[id])
     IN /\ stack' = << Frame(IF IsFlow(c) THEN "flow"
                             ELSE IF IsBatchNode(c) THEN "bnode" ELSE "node", id, FALSE,
                             0, 0, RunThrows(c), "prep", Len(pheap)) >>
        /\ warnings' = IF warn THEN <<"Node won't run successors">> ELSE <<>>
        \* BaseNode.run calls this._run, which is AsyncNode._run
        /\ exc' = IF viaRun /\ RunThrows(c) THEN AsyncSyncErr(id) ELSE exc
  /\ run' = run + 1
  /\ trace' = <<>>
  /\ UNCHANGED <<timers, handlers, delivered, helpers, cfg, nodes, succ, pheap, shared, outcome>>

\* the value a prep hook stores on its node in run r: this.stash = v
StashVal(r) == <<"stash", r>>

\* the successor a hook registers on its own node: this.next(C, "go")
WireLabel == "go"
WireTarget == "C"

\* const p = this.prep(shared)  (the application's hook: it records the
\* parameters it sees in the shared context, may count its visits, may
\* write into this.params, call this.setParams, call this.next or assign an
\* attribute of its own)
\* let maxAttempts = 3 in DecideActionNode.prepAsync
DefaultMaxAttempts == 3
\* (a variant that reads the key handleAskQuestion assigns)
MaxAttemptsConfigured(sh) ==
  IF sh.maxAgentSearchAttempts.t = "number" /\ sh.maxAgentSearchAttempts.n > 0
  THEN sh.maxAgentSearchAttempts.n ELSE DefaultMaxAttempts
\* DecideActionNode.prepAsync: maxAttempts is shared.maxSearchAttempts when
\* that is a number above 0, and 3 otherwise
MaxAttempts(sh) ==
  IF sh.maxSearchAttempts.t = "number" /\ sh.maxSearchAttempts.n > 0
  THEN sh.maxSearchAttempts.n ELSE DefaultMaxAttempts
\* what DecideActionNode.prepAsync returns: searchAttempts:
\* shared.searchAttempts || 0 and maxSearchAttempts: maxAttempts
DecidePrep(sh) == [t |-> "decide", n |-> sh.searchAttempts, max |-> MaxAttempts(sh)]
\* DecideActionNode.execAsync: searchAttempts >= maxSearchAttempts: the
\* decision is 'answer' and the LLM is not called
Forced(fr) == cfg.prepKind[fr.id] = "decide" /\ fr.prepRes.n >= fr.prepRes.max
\* the decisions parseLLMDecision can return with an action: search with a
\* query, answer, search without a query, another action
LLMDecisions == {"search", "answer", "noquery", "unknown"}
\* the values a call of exec can return
ExecValues(fr, i) ==
  IF cfg.prepKind[fr.id] = "decide"
  THEN (IF Forced(fr) THEN {"answer"} ELSE LLMDecisions)
  ELSE {cfg.execVal[fr.id][i]}

\* a prep hook that returns the shared counter it has read: the value is
\* the node's prepRes, handed to exec and post
PrepReads(fr) ==
  IF cfg.prepKind[fr.id] = "read"
  THEN [fr EXCEPT !.prepRes = [t |-> "num", n |-> shared[run].counter]]
  ELSE IF cfg.prepKind[fr.id] = "decide"
  THEN [fr EXCEPT !.prepRes = DecidePrep(shared[run])]
  ELSE fr

NodePrep ==
  /\ Running /\ Top.kind = "node" /\ Top.pc = "prep"
  /\ LET fr == PrepReads(Top)
         id == fr.id
         ref == InstParams(fr)
         h == cfg.hook[id]
         new == Len(pheap) + 1
     IN /\ shared' = [shared EXCEPT
                        ![run].seen = Append(@, [node |-> id, params |-> pheap[ref]]),
                        ![run].counter = IF cfg.prepKind[id] = "count" THEN @ + 1 ELSE @]
        /\ trace' = Append(trace, Event("prep", id, 0, Null, Null, pheap[ref]))
        /\ CASE h = "write" ->
                  /\ pheap' = [pheap EXCEPT ![ref]["tag"] = <<"W", run, 0>>]
                  /\ stack' = SetTop(stack, [fr EXCEPT !.pc = "begin"])
                  /\ UNCHANGED nodes
             [] h = "set" ->
                  /\ pheap' = Append(pheap, [id |-> <<"W", run, 1>>, tag |-> Absent])
                  /\ IF fr.clone
                     THEN /\ stack' = SetTop(stack, [fr EXCEPT !.pc = "begin", !.params = new])
                          /\ UNCHANGED nodes
                     ELSE /\ stack' = SetTop(stack, [fr EXCEPT !.pc = "begin", !.hbase = new])
                          /\ nodes' = [nodes EXCEPT ![id].params = new]
             [] h = "stash" ->
                  \* this.stash = v: an own property of the instance
                  /\ IF fr.clone
                     THEN /\ stack' = SetTop(stack, [fr EXCEPT !.pc = "begin",
                                                               !.stash = StashVal(run)])
                          /\ UNCHANGED nodes
                     ELSE /\ stack' = SetTop(stack, [fr EXCEPT !.pc = "begin"])
                          /\ nodes' = [nodes EXCEPT ![id].stash = StashVal(run)]
                  /\ UNCHANGED pheap
             [] OTHER ->
                  /\ stack' = SetTop(stack, [fr EXCEPT !.pc = "begin"])
                  /\ UNCHANGED <<pheap, nodes>>
        \* this.next(C, "go") in the hook: the instance's successors object is
        \* the canonical node's (shallowCopy copies the reference)
        /\ succ' = IF h = "wire" THEN [succ EXCEPT ![id] = SuccPut(@, WireLabel, WireTarget)]
                   ELSE succ
        /\ warnings' = IF h = "wire" /\ SuccGet(succ[id], WireLabel) # Null
                       THEN Append(warnings, "Overwriting successor")
                       ELSE warnings
  /\ UNCHANGED <<timers, handlers, delivered, helpers, cfg, exc, run, outcome>>

\* a frame of AsyncParallelBatchFlow._runAsync is awaiting Promise.all
InJoin == stack # <<>> /\ stack[1].kind = "flow" /\ stack[1].pc = "join"

\* pr.map(...) is still running: the orchestration that reached its first
\* await is suspended until the remaining ones have been started
\* Promise.all has rejected and _runAsync has thrown to its caller; the
\* promises of the remaining orchestrations are still pending or settle
\* unobserved
Detached == stack # <<>> /\ stack[1].kind = "flow" /\ stack[1].pc = "detached"
\* the frames above the first one are those of one orchestration among several
InBranches == InJoin \/ Detached

MustYield == InJoin /\ \E i \in DOMAIN stack[1].branches : stack[1].branches[i].st = "new"

\* Node._exec / AsyncNode._exec: for (this.curRetry = 0; ...
ExecBegin ==
  /\ Running /\ Top.kind = "node" /\ Top.pc = "begin" /\ ~MustYield
  /\ IF Top.clone
     THEN /\ stack' = SetTop(stack, [Top EXCEPT !.curRetry = 0, !.pc = "loop"])
          /\ UNCHANGED nodes
     ELSE /\ stack' = SetTop(stack, [Top EXCEPT !.pc = "loop"])
          /\ nodes' = [nodes EXCEPT ![Top.id].curRetry = 0]
  /\ UNCHANGED <<timers, handlers, delivered, helpers, cfg, succ, pheap, shared, exc, warnings, trace, run, outcome>>

\* (a variant that runs the loop body once before testing)
LoopTestAfterFirst(i, k) == i = 0 \/ i < k

\* this.curRetry < this.maxRetries
LoopTest(i, k) == i < k

\* (a variant that advances the counter by two)
NextRetrySkips(i) == i + 2

\* this.curRetry++, the update of the for loop
NextRetry(i) == i + 1

\* (a variant comparing against maxRetries itself)
IsLastAttemptOffByOne(i, k) == i = k

\* this.curRetry === this.maxRetries - 1
IsLastAttempt(i, k) == i = k - 1

\* (a variant that calls exec without returning its value)
ExecReturnDropsValue(fr, v) == [fr EXCEPT !.execRes = Null, !.pc = "post"]

\* return this.exec(prepRes) / return await this.execAsync(prepRes)
ExecReturn(fr, v) == [fr EXCEPT !.execRes = v, !.pc = "post"]

\* (a variant that calls the fallback hook without returning its value)
FallbackReturnDropsValue(fr, v) == [fr EXCEPT !.execRes = Null, !.pc = "post"]

\* return this.execFallback(prepRes, e), the hook returning v
FallbackReturn(fr, v) == [fr EXCEPT !.execRes = v, !.pc = "post"]

\* (a variant in which the delay does not suspend the loop)
SuspendsOnWaitNever(w) == FALSE

\* if (this.wait > 0) await new Promise(resolve => setTimeout(resolve, ...))
SuspendsOnWait(w) == w > 0

\* (a variant in which the synchronous loop ignores the delay)
SyncWaitWarnsNever(w, c) == FALSE

\* Node._exec with wait > 0: warnings.warn("Synchronous wait ...") and a
\* timer nobody waits for
SyncWaitWarns(w, c) == w > 0 /\ ~IsAsyncNode(c)

\* one turn of the retry loop: the loop test, the call of exec / execAsync
\* in the try block, and the catch block
ExecAttempt ==
  /\ Running /\ Top.kind = "node" /\ Top.pc = "loop"
  /\ LET fr == Top
         id == fr.id
         i == InstCurRetry(fr)
         k == cfg.maxRetries
     IN IF LoopTest(i, k)
        THEN \/ \* exec returns a value
                /\ \E v \in ExecValues(fr, i) :
                     /\ stack' = SetTop(stack, ExecReturn(fr, v))
                     /\ trace' = Append(trace, Event("exec", id, i, v, "ok", EmptyMap))
                /\ UNCHANGED <<nodes, warnings, timers>>
             \/ \* exec throws e
                /\ id \in cfg.mayFail /\ ~Forced(fr)
                /\ trace' = Append(trace, Event("exec", id, i, Null, "throw", EmptyMap))
                /\ IF IsLastAttempt(i, k)
                   THEN \* return this.execFallback(prepRes, e)
                        /\ stack' = SetTop(stack, [fr EXCEPT !.err = ExecErr(id, i), !.pc = "fallback"])
                        /\ UNCHANGED <<nodes, warnings, timers>>
                   ELSE IF IsAsyncNode(cfg.cls[id]) /\ SuspendsOnWait(cfg.wait)
                   THEN \* await the delay
                        /\ stack' = SetTop(stack, [fr EXCEPT !.pc = "wait"])
                        /\ UNCHANGED <<nodes, warnings, timers>>
                   ELSE \* this.curRetry++
                        /\ warnings' = IF SyncWaitWarns(cfg.wait, cfg.cls[id])
                                       THEN Append(warnings, "Synchronous wait")
                                       ELSE warnings
                        \* setTimeout(() => { }, this.wait * 1000)
                        /\ timers' = IF SyncWaitWarns(cfg.wait, cfg.cls[id])
                                     THEN timers + 1 ELSE timers
                        /\ IF fr.clone
                           THEN /\ stack' = SetTop(stack, [fr EXCEPT !.curRetry = NextRetry(i)])
                                /\ UNCHANGED nodes
                           ELSE /\ nodes' = [nodes EXCEPT ![id].curRetry = NextRetry(i)]
                                /\ UNCHANGED stack
        ELSE \* the loop ends without a return: undefined
             /\ stack' = SetTop(stack, [fr EXCEPT !.execRes = Null, !.pc = "post"])
             /\ UNCHANGED <<nodes, trace, warnings, timers>>
  /\ UNCHANGED <<handlers, delivered, helpers, cfg, succ, pheap, shared, exc, run, outcome>>

\* the delay timer fires and the loop resumes: this.curRetry++
Wake ==
  /\ Running /\ Top.kind \in {"node", "bnode"} /\ Top.pc = "wait"
  /\ stack' = SetTop(stack, [WithCurRetry(Top, NextRetry(InstCurRetry(Top))) EXCEPT !.pc = "loop"])
  /\ nodes' = NodesWithCurRetry(Top, NextRetry(InstCurRetry(Top)))
  /\ trace' = Append(trace, Event("wake", Top.id, NextRetry(InstCurRetry(Top)), Null, Null,
                                  IF Top.kind = "bnode" THEN Top.bi ELSE EmptyMap))
  /\ UNCHANGED <<timers, handlers, delivered, helpers, cfg, succ, pheap, shared, exc, warnings, run, outcome>>

\* the callback of a timer set by Node._exec runs: () => { }. A timer
\* callback runs when no call is in progress, and it does nothing
TimerFires ==
  /\ timers > 0 /\ stack = <<>> /\ exc = NoErr
  /\ timers' = timers - 1
  /\ UNCHANGED <<handlers, delivered, helpers, cfg, nodes, succ, pheap, shared, stack, exc,
                 warnings, trace, run, outcome>>

\* (a variant that throws a new error in place of the one it was given)
ExecFallbackWraps(e) == [e EXCEPT !.name = "Error"]

\* the default execFallback / execFallbackAsync: throw exc
ExecFallbackDefault(e) == e

\* execFallback / execFallbackAsync: the default rethrows exc, the
\* application's override returns a value
Fallback ==
  /\ Running /\ Top.kind = "node" /\ Top.pc = "fallback"
  /\ trace' = Append(trace, Event("fallback", Top.id, InstCurRetry(Top), Null,
                                  cfg.fallback, EmptyMap))
  /\ IF cfg.fallback = "raise"
     THEN /\ exc' = ExecFallbackDefault(Top.err)
          /\ UNCHANGED stack
     ELSE /\ stack' = SetTop(stack, FallbackReturn(Top, cfg.fbVal))
          /\ UNCHANGED exc
  /\ UNCHANGED <<timers, handlers, delivered, helpers, cfg, nodes, succ, pheap, shared, warnings, run, outcome>>

\* what post(shared, prepRes, execRes) of the node may return
PostResults(fr) ==
  LET kind == cfg.postKind[fr.id] IN
  CASE kind = "any" -> cfg.postChoices
    [] kind = "loopDone" -> {IF shared[run].counter >= 3 THEN "done" ELSE "loop"}
    [] kind = "loop" -> {"loop"}
    \* DecideActionNode.postAsync
    [] kind = "decide" -> {IF fr.execRes \in {"search", "answer"} THEN fr.execRes ELSE "ERROR"}
    \* SearchWebNode.postAsync, AnswerQuestionNode.postAsync
    [] kind = "searched" -> {"decide"}
    [] kind = "done" -> {"done"}
    [] OTHER -> {fr.execRes}

\* return this.post(shared, p, e)
\* (a variant in which the post hook reads the counter again)
WriteBackFresh(cur, read) == cur + 1
\* a post hook that stores prepRes + 1 as the shared counter:
\* shared.counter = prepRes + 1, where prepRes was read in prep
WriteBack(cur, read) == read + 1

NodePost ==
  /\ Running /\ Top.kind = "node" /\ Top.pc = "post"
  /\ \E a \in PostResults(Top) :
       /\ Return(Top, a)
       /\ trace' = Append(trace, Event("post", Top.id, 0, Top.execRes, a, EmptyMap))
  /\ shared' = IF cfg.prepKind[Top.id] = "read"
               THEN [shared EXCEPT ![run].counter = WriteBack(@, Top.prepRes.n)]
               ELSE IF cfg.postKind[Top.id] = "searched"
               \* shared.searchAttempts = (shared.searchAttempts || 0) + 1
               THEN [shared EXCEPT ![run].searchAttempts = @ + 1]
               ELSE shared
  /\ UNCHANGED <<timers, handlers, delivered, helpers, cfg, nodes, succ, exc, warnings, run>>

\* Flow._run / BatchFlow._run / AsyncFlow._runAsync / AsyncBatchFlow._runAsync:
\* the call of this.prep(shared) (prepAsync), and for the batch flows the
\* "|| []" default and the Array.isArray test
FlowPrep ==
  /\ Running /\ Top.kind = "flow" /\ Top.pc = "prep"
  /\ LET fr == Top
         pr == shared[run].batch
     IN IF IsBatchFlow(cfg.cls[fr.id])
        THEN IF pr.t = "obj"
             THEN \* warn; return this.post(shared, pr, null)
                  /\ stack' = SetTop(stack, [fr EXCEPT !.prepRes = pr, !.execRes = Null, !.pc = "post"])
                  /\ warnings' = Append(warnings, "BatchFlow expected an array")
             ELSE /\ stack' = SetTop(stack, [fr EXCEPT !.prepRes = [t |-> "arr", n |-> pr.n],
                                                       !.bi = 1,
                                                       !.pc = IF IsParallelFlow(cfg.cls[fr.id])
                                                              THEN "fork" ELSE "iter"])
                  /\ UNCHANGED warnings
        ELSE /\ stack' = SetTop(stack, [fr EXCEPT !.prepRes = NoPrep, !.pc = "orch"])
             /\ UNCHANGED warnings
  /\ trace' = Append(trace, Event("flowprep", Top.id, 0, Null, Null, EmptyMap))
  /\ UNCHANGED <<timers, handlers, delivered, helpers, cfg, nodes, succ, pheap, shared, exc, run, outcome>>

\* (a variant merging in the other order: { ...bp, ...this.params })
OrchParamsBaseWins(own, isBatch, bp) == IF isBatch THEN Merge(bp, own) ELSE own

\* the parameter mapping handed to every visit of one orchestration:
\* params || { ...this.params }, where a batch flow passes
\* { ...this.params, ...bp } as params
OrchParams(own, isBatch, bp) == IF isBatch THEN Merge(own, bp) ELSE own

\* (a variant without the test)
NoStartNever(start) == FALSE

\* if (!this.startNode)
NoStart(start) == start = Null

\* the call of _orchestrate / _orchestrateAsync, up to the while loop
OrchBegin ==
  /\ Running /\ Top.kind = "flow"
  /\ Top.pc = "orch" \/ (Top.pc = "iter" /\ Top.bi <= Top.prepRes.n)
  /\ LET fr == Top
         start == nodes[fr.id].startNode
         isBatch == fr.pc = "iter"
         p == OrchParams(pheap[InstParams(fr)], isBatch, BP(run, fr.bi))
         new == Len(pheap) + 1
     IN /\ trace' = Append(trace, Event("orch", fr.id, IF isBatch THEN fr.bi ELSE 0,
                                        Null, Null, p))
        /\ IF NoStart(start)
           THEN \* warn; return null
                /\ warnings' = Append(warnings, "Flow has no start node")
                /\ stack' = Deliver(stack, Null)
                /\ UNCHANGED pheap
           ELSE /\ pheap' = Append(pheap, p)
                /\ stack' = Append(SetTop(stack, [fr EXCEPT !.pc = "wait"]),
                                   [Frame("orch", fr.id, FALSE, new, 0, fr.async, "visit", Len(pheap))
                                      EXCEPT !.curr = start])
                /\ UNCHANGED warnings
  /\ UNCHANGED <<timers, handlers, delivered, helpers, cfg, nodes, succ, shared, exc, run, outcome>>

\* BatchFlow._run: the for-of loop is exhausted
BatchDone ==
  /\ Running /\ Top.kind = "flow" /\ Top.pc = "iter" /\ Top.bi > Top.prepRes.n
  /\ stack' = SetTop(stack, [Top EXCEPT !.execRes = Null, !.pc = "post"])
  /\ UNCHANGED <<timers, handlers, delivered, helpers, cfg, nodes, succ, pheap, shared, exc, warnings, trace, run, outcome>>

\* (a variant in which an asynchronous flow takes every node for an AsyncNode)
DispatchAllAsync(asyncFlow, c) ==
  IF asyncFlow THEN "async"
  ELSE IF RunThrows(c) THEN "throw"
  ELSE "sync"

\* which lifecycle a visit of the clone goes through: "async" (_runAsync),
\* "sync" (_run), or "throw" (_run is AsyncNode._run)
Dispatch(asyncFlow, c) ==
  IF asyncFlow /\ IsAsyncNode(c) THEN "async"
  ELSE IF RunThrows(c) THEN "throw"
  ELSE "sync"

\* (a variant that hands back the object itself)
ShallowCopyIdentity(obj) ==
  [clone |-> FALSE, params |-> obj.params, curRetry |-> obj.curRetry, stash |-> obj.stash]

\* shallowCopy(curr) for a node object: a new object with the node's own
\* fields (the params reference, curRetry and what a hook stored on the
\* node among them)
ShallowCopy(obj) ==
  [clone |-> TRUE, params |-> obj.params, curRetry |-> obj.curRetry, stash |-> obj.stash]

\* (a variant that leaves this.params as it was)
SetParamsNoop(old, p) == old

\* currentNode.setParams(p): the reference the instance holds afterwards
SetParams(old, p) == p

\* the loop body of _orchestrate / _orchestrateAsync, up to the call of
\* currentNode._run(shared) / _runAsync(shared)
Visit ==
  /\ Running /\ Top.kind = "orch" /\ Top.pc = "visit" /\ Top.curr # Null
  /\ LET fr == Top
         curr == fr.curr
     IN IF curr = ProtoValue
        THEN \* shallowCopy returns the non-node; it has no setParams
             /\ exc' = TypeErr(ProtoValue)
             /\ UNCHANGED <<stack, trace, nodes>>
        ELSE LET d == Dispatch(fr.async, cfg.cls[curr]) IN
             IF d = "throw"
             THEN /\ exc' = AsyncSyncErr(curr)
                  /\ UNCHANGED <<stack, trace, nodes>>
             ELSE LET cp == ShallowCopy(nodes[curr])
                      pref == SetParams(cp.params, fr.params)
                  IN /\ stack' = Append(SetTop(stack, [fr EXCEPT !.pc = "wait"]),
                                        [Frame(IF IsFlow(cfg.cls[curr]) THEN "flow" ELSE "node",
                                               curr, cp.clone, pref, cp.curRetry,
                                               d = "async", "prep", Len(pheap))
                                           EXCEPT !.stash = cp.stash])
                     /\ nodes' = IF cp.clone THEN nodes
                                 ELSE [nodes EXCEPT ![curr].params = pref]
                     /\ trace' = Append(trace, Event("visit", curr, Len(stack), Null, d, pheap[pref]))
                     /\ UNCHANGED exc
  /\ UNCHANGED <<timers, handlers, delivered, helpers, cfg, succ, pheap, shared, warnings, run, outcome>>

\* while (curr) fails: return lastAction
OrchReturn ==
  /\ Running /\ Top.kind = "orch" /\ Top.pc = "visit" /\ Top.curr = Null
  /\ Return(Top, Top.lastAction)
  /\ trace' = Append(trace, Event("orchret", Top.id, 0, Null, Top.lastAction, EmptyMap))
  /\ UNCHANGED <<timers, handlers, delivered, helpers, cfg, nodes, succ, shared, exc, warnings, run>>

\* (a variant that looks every successor up in the flow's start node)
LookupNodeStart(fr) == nodes[fr.id].startNode
\* the first argument of this.getNextNode(curr, lastAction): the node the
\* loop has just run
LookupNode(fr) == fr.curr

\* curr = this.getNextNode(curr, lastAction)
GetNext ==
  /\ Running /\ Top.kind = "orch" /\ Top.pc = "next"
  /\ LET fr == Top
         s == succ[LookupNode(fr)]
         nxt == GetNextNode(s, fr.lastAction)
     IN /\ stack' = SetTop(stack, [fr EXCEPT !.curr = nxt, !.pc = "visit"])
        /\ warnings' = IF GetNextWarns(s, fr.lastAction)
                       THEN Append(warnings, "Flow ends") ELSE warnings
        /\ trace' = Append(trace, Event("next", fr.curr,
                                        IF GetNextWarns(s, fr.lastAction) THEN 1 ELSE 0,
                                        fr.lastAction, nxt, EmptyMap))
  /\ UNCHANGED <<timers, handlers, delivered, helpers, cfg, nodes, succ, pheap, shared, exc, run, outcome>>

\* return this.post(shared, p, o): the default post of a flow returns its
\* third argument (o, or null for a batch flow)
FlowPost ==
  /\ Running /\ Top.kind = "flow" /\ Top.pc = "post"
  /\ Return(Top, Top.execRes)
  /\ trace' = Append(trace, Event("flowpost", Top.id, 0, Top.execRes, Top.execRes, EmptyMap))
  /\ UNCHANGED <<timers, handlers, delivered, helpers, cfg, nodes, succ, shared, exc, warnings, run>>

\* (a variant of Promise.all that keeps the last rejection)
SettleLast(first, e) == e
\* Promise.all settles once: a rejection after the first one is ignored
SettleOnce(first, e) == IF first = NoErr THEN e ELSE first
\* the running orchestration of a parallel batch flow ends with error e
BranchRejected(F, e) ==
  [F EXCEPT !.branches[F.bi] = [st |-> "rejected", stk |-> <<>>],
            !.err = SettleOnce(@, e)]

\* an exception leaves one activation (no _run, _runAsync, _orchestrate or
\* _orchestrateAsync has a try/catch); out of the last one it reaches the
\* application
Unwind ==
  /\ exc # NoErr /\ stack # <<>>
  /\ pheap' = SubSeq(pheap, 1, Top.hbase)
  /\ IF InBranches /\ Len(stack) = 2
     THEN \* out of _orchestrateAsync: its promise, an element of the array
          \* given to Promise.all, is rejected
          /\ stack' = << BranchRejected(stack[1], exc) >>
          /\ exc' = NoErr
          /\ UNCHANGED outcome
     ELSE /\ stack' = Pop(stack)
          /\ IF Len(stack) = 1
             THEN /\ outcome' = Append(outcome, [st |-> "threw", v |-> Null, err |-> exc])
                  /\ exc' = NoErr
             ELSE UNCHANGED <<outcome, exc>>
  /\ UNCHANGED <<timers, handlers, delivered, helpers, cfg, nodes, succ, shared, warnings, trace, run>>

(* ----------------------------- batch nodes ------------------------------ *)
\* the value exec returns for the i-th item
ItemVals == <<"r1", "r2", "r3", "r4">>
ItemVal(i) == ItemVals[i]
\* the number of elements _exec processes: those of the array, or the one
\* non-array value
ItemCount(fr) == IF fr.prepRes.t = "arr" THEN fr.prepRes.n ELSE 1
\* !items
ItemsFalsy(pr) == pr.t \in {"null", "zero"}

\* const p = this.prep(shared) of a batch node: the application's hook
\* returns the items
BatchPrep ==
  /\ Running /\ Top.kind = "bnode" /\ Top.pc = "prep"
  /\ stack' = SetTop(stack, [Top EXCEPT !.prepRes = cfg.items, !.pc = "begin"])
  /\ trace' = Append(trace, Event("prep", Top.id, 0, Null, Null, pheap[InstParams(Top)]))
  /\ UNCHANGED <<timers, handlers, delivered, helpers, cfg, nodes, succ, pheap, shared, exc, warnings, run, outcome>>

\* BatchNode._exec / AsyncBatchNode._exec / AsyncParallelBatchNode._exec:
\* if (!items) return []; if (!Array.isArray(items)) { warn; one call };
\* else one call per element
BatchDispatch(pr, parallel) ==
  IF ItemsFalsy(pr) THEN "empty"
  ELSE IF pr.t # "arr" THEN "single"
  ELSE IF parallel THEN "parallel" ELSE "each"

BatchBegin ==
  /\ Running /\ Top.kind = "bnode" /\ Top.pc = "begin"
  /\ LET fr == Top
         d == BatchDispatch(fr.prepRes, IsParallelNode(cfg.cls[fr.id]))
     IN /\ stack' = SetTop(stack,
                       [fr EXCEPT !.results = <<>>, !.bi = 1,
                                  !.pc = CASE d = "empty" -> "post"
                                           [] d = "parallel" -> "pstart"
                                           [] OTHER -> "item"])
        /\ warnings' = IF d = "single"
                       THEN Append(warnings, "BatchNode expected an array")
                       ELSE warnings
        /\ trace' = Append(trace, Event("bbegin", fr.id, 0, Null, d, EmptyMap))
  /\ UNCHANGED <<timers, handlers, delivered, helpers, cfg, nodes, succ, pheap, shared, exc, run, outcome>>

\* (a variant that goes on from the count the previous call left)
FirstAttemptKeepsCount(prev) == prev

\* for (this.curRetry = 0; ...: the count a call of _exec starts from,
\* whatever the previous call left in this.curRetry
FirstAttempt(prev) == 0

\* the next element: super._exec(item) starts with this.curRetry = 0; or
\* the elements are exhausted and _exec returns the results
BatchItem ==
  /\ Running /\ Top.kind = "bnode" /\ Top.pc = "item"
  /\ IF Top.bi <= ItemCount(Top)
     THEN /\ stack' = SetTop(stack, [WithCurRetry(Top, FirstAttempt(InstCurRetry(Top)))
                                      EXCEPT !.pc = "loop"])
          /\ nodes' = NodesWithCurRetry(Top, FirstAttempt(InstCurRetry(Top)))
     ELSE /\ stack' = SetTop(stack, [Top EXCEPT !.pc = "post"])
          /\ UNCHANGED nodes
  /\ UNCHANGED <<timers, handlers, delivered, helpers, cfg, succ, pheap, shared, exc, warnings, trace, run, outcome>>

\* the element's result is stored and the next element is taken
ItemDone(fr, v) == [fr EXCEPT !.results = Append(@, v), !.bi = @ + 1, !.pc = "item"]

\* one turn of the retry loop of super._exec(item)
BatchAttempt ==
  /\ Running /\ Top.kind = "bnode" /\ Top.pc = "loop"
  /\ LET fr == Top
         id == fr.id
         i == InstCurRetry(fr)
         k == cfg.maxRetries
     IN IF LoopTest(i, k)
        THEN IF i >= cfg.failN[fr.bi]
             THEN \* exec returns a value
                  /\ stack' = SetTop(stack, ItemDone(fr, ItemVal(fr.bi)))
                  /\ trace' = Append(trace, Event("bexec", id, i, ItemVal(fr.bi), "ok", fr.bi))
                  /\ UNCHANGED <<nodes, warnings, timers>>
             ELSE \* exec throws
                  /\ trace' = Append(trace, Event("bexec", id, i, Null, "throw", fr.bi))
                  /\ IF IsLastAttempt(i, k)
                     THEN /\ stack' = SetTop(stack, [fr EXCEPT !.err = ItemErr(id, fr.bi), !.pc = "fallback"])
                          /\ UNCHANGED <<nodes, warnings, timers>>
                     ELSE IF IsAsyncNode(cfg.cls[id]) /\ SuspendsOnWait(cfg.wait)
                     THEN \* await the delay
                          /\ stack' = SetTop(stack, [fr EXCEPT !.pc = "wait"])
                          /\ UNCHANGED <<nodes, warnings, timers>>
                     ELSE /\ stack' = SetTop(stack, WithCurRetry(fr, NextRetry(i)))
                          /\ nodes' = NodesWithCurRetry(fr, NextRetry(i))
                          /\ warnings' = IF SyncWaitWarns(cfg.wait, cfg.cls[id])
                                         THEN Append(warnings, "Synchronous wait")
                                         ELSE warnings
                          /\ timers' = IF SyncWaitWarns(cfg.wait, cfg.cls[id])
                                       THEN timers + 1 ELSE timers
        ELSE \* the loop ends without a return: undefined
             /\ stack' = SetTop(stack, ItemDone(fr, Null))
             /\ UNCHANGED <<nodes, warnings, trace, timers>>
  /\ UNCHANGED <<handlers, delivered, helpers, cfg, succ, pheap, shared, exc, run, outcome>>

\* return this.execFallback(item, e)
BatchFallback ==
  /\ Running /\ Top.kind = "bnode" /\ Top.pc = "fallback"
  /\ trace' = Append(trace, Event("bfallback", Top.id, InstCurRetry(Top), Null,
                                  cfg.fallback, Top.bi))
  /\ IF cfg.fallback = "raise"
     THEN /\ exc' = ExecFallbackDefault(Top.err)
          /\ UNCHANGED stack
     ELSE /\ stack' = SetTop(stack, ItemDone(Top, cfg.fbVal))
          /\ UNCHANGED exc
  /\ UNCHANGED <<timers, handlers, delivered, helpers, cfg, nodes, succ, pheap, shared, warnings, run, outcome>>

\* return this.post(shared, p, e): the application's post keeps the results
\* and returns no action
BatchPost ==
  /\ Running /\ Top.kind = "bnode" /\ Top.pc = "post"
  /\ Return(Top, Null)
  /\ trace' = Append(trace, Event("bpost", Top.id, Len(Top.results), Null, Null, Top.results))
  /\ UNCHANGED <<timers, handlers, delivered, helpers, cfg, nodes, succ, shared, exc, warnings, run>>

(* -------------------------- parallel batch node ------------------------ *)
\* a branch of items.map(item => super._exec(item)): what it is suspended
\* on, how many times it has called execAsync, the value it is fulfilled with
Branch(st, calls, v) == [st |-> st, calls |-> calls, v |-> v]
NoneRejected(fr) == \A b \in DOMAIN fr.branches : fr.branches[b].st # "rejected"

\* items.map(...): every branch runs up to its first await: it sets
\* this.curRetry = 0, tests the loop condition and calls execAsync
ParStart ==
  /\ Running /\ Top.kind = "bnode" /\ Top.pc = "pstart"
  /\ LET fr == Top
         n == fr.prepRes.n
         k == cfg.maxRetries
         br == IF LoopTest(0, k) THEN Branch("exec", 1, Null) ELSE Branch("done", 0, Null)
     IN /\ stack' = SetTop(stack, [(IF n > 0 THEN WithCurRetry(fr, 0) ELSE fr)
                                     EXCEPT !.branches = [b \in 1..n |-> br], !.pc = "pjoin"])
        /\ nodes' = IF n > 0 THEN NodesWithCurRetry(fr, 0) ELSE nodes
        /\ trace' = trace \o [b \in 1..n |-> Event("bstart", fr.id, 0, Null,
                                                    IF LoopTest(0, k) THEN "call" ELSE "skip", b)]
  /\ UNCHANGED <<timers, handlers, delivered, helpers, cfg, succ, pheap, shared, exc, warnings, run, outcome>>

\* this.curRetry++ and the loop test, in branch b: another call of
\* execAsync, or the loop ends and the branch is fulfilled with undefined
Advance(fr, b) ==
  LET c == NextRetry(InstCurRetry(fr)) IN
  [WithCurRetry(fr, c) EXCEPT
     !.branches[b] = IF LoopTest(c, cfg.maxRetries)
                     THEN Branch("exec", @.calls + 1, Null)
                     ELSE Branch("done", @.calls, Null)]

\* the promise of execAsync(item b) settles and branch b resumes: it returns
\* the value, or runs the catch block
ParSettle ==
  /\ Running /\ Top.kind = "bnode" /\ Top.pc = "pjoin" /\ NoneRejected(Top)
  /\ \E b \in DOMAIN Top.branches :
       /\ Top.branches[b].st = "exec"
       /\ LET fr == Top
              id == fr.id
              c == InstCurRetry(fr)
              k == cfg.maxRetries
              ok == fr.branches[b].calls > cfg.failN[b]
              calls == fr.branches[b].calls
          IN IF ok
             THEN /\ stack' = SetTop(stack, [fr EXCEPT !.branches[b] = Branch("done", calls, ItemVal(b))])
                  /\ trace' = Append(trace, Event("bexec", id, c, ItemVal(b), "ok", b))
                  /\ UNCHANGED nodes
             ELSE IF IsLastAttempt(c, k)
             THEN \* return await this.execFallbackAsync(item, e)
                  /\ stack' = SetTop(stack,
                       IF cfg.fallback = "raise"
                       THEN [fr EXCEPT !.branches[b] = Branch("rejected", calls, Null),
                                       !.err = ExecFallbackDefault(ItemErr(id, b))]
                       ELSE [fr EXCEPT !.branches[b] = Branch("done", calls, cfg.fbVal)])
                  /\ trace' = trace \o << Event("bexec", id, c, Null, "throw", b),
                                           Event("bfallback", id, c, Null, cfg.fallback, b) >>
                  /\ UNCHANGED nodes
             ELSE IF SuspendsOnWait(cfg.wait)
             THEN /\ stack' = SetTop(stack, [fr EXCEPT !.branches[b] = Branch("wait", calls, Null)])
                  /\ trace' = Append(trace, Event("bexec", id, c, Null, "throw", b))
                  /\ UNCHANGED nodes
             ELSE /\ stack' = SetTop(stack, Advance(fr, b))
                  /\ nodes' = NodesWithCurRetry(fr, NextRetry(c))
                  /\ trace' = Append(trace, Event("bexec", id, c, Null, "throw", b))
  /\ UNCHANGED <<timers, handlers, delivered, helpers, cfg, succ, pheap, shared, exc, warnings, run, outcome>>

\* the delay timer of branch b fires: this.curRetry++ and the loop test
ParWake ==
  /\ Running /\ Top.kind = "bnode" /\ Top.pc = "pjoin" /\ NoneRejected(Top)
  /\ \E b \in DOMAIN Top.branches :
       /\ Top.branches[b].st = "wait"
       /\ stack' = SetTop(stack, Advance(Top, b))
       /\ nodes' = NodesWithCurRetry(Top, NextRetry(InstCurRetry(Top)))
       /\ trace' = Append(trace, Event("bwake", Top.id, NextRetry(InstCurRetry(Top)), Null, Null, b))
  /\ UNCHANGED <<timers, handlers, delivered, helpers, cfg, succ, pheap, shared, exc, warnings, run, outcome>>

\* (a variant that collects the values in the opposite order)
CollectReversed(branches) ==
  [b \in DOMAIN branches |-> branches[Len(branches) + 1 - b].v]

\* the value Promise.all is fulfilled with: the branches' values by input
\* position
Collect(branches) == [b \in DOMAIN branches |-> branches[b].v]

\* await Promise.all(...): fulfilled with the branches' values in input
\* order once every branch is fulfilled, rejected with the error of the
\* first branch that is rejected
ParJoin ==
  /\ Running /\ Top.kind = "bnode" /\ Top.pc = "pjoin"
  /\ IF NoneRejected(Top)
     THEN /\ \A b \in DOMAIN Top.branches : Top.branches[b].st = "done"
          /\ stack' = SetTop(stack, [Top EXCEPT
                          !.results = Collect(Top.branches),
                          !.pc = "post"])
          /\ UNCHANGED exc
     ELSE /\ exc' = Top.err
          /\ UNCHANGED stack
  /\ UNCHANGED <<timers, handlers, delivered, helpers, cfg, nodes, succ, pheap, shared, warnings, trace, run, outcome>>

(* ------------------------ parallel batch flow -------------------------- *)
\* AsyncParallelBatchFlow._runAsync: pr.map(bp => this._orchestrateAsync(
\* shared, { ...this.params, ...bp })): one orchestration per parameter
\* mapping; the first one starts running
Fork ==
  /\ Running /\ Top.kind = "flow" /\ Top.pc = "fork"
  /\ LET fr == Top
         n == fr.prepRes.n
         start == nodes[fr.id].startNode
         base == Len(pheap)
         own == pheap[InstParams(fr)]
         p(i) == OrchParams(own, TRUE, BP(run, i))
         thread(i) == << [Frame("orch", fr.id, FALSE, base + i, 0, TRUE, "visit", base + n)
                            EXCEPT !.curr = start] >>
     IN IF NoStart(start)
        THEN \* every orchestration warns and returns null
             /\ warnings' = warnings \o [i \in 1..n |-> "Flow has no start node"]
             /\ stack' = SetTop(stack, [fr EXCEPT !.execRes = Null, !.pc = "post"])
             /\ UNCHANGED <<pheap, trace>>
        ELSE IF n = 0
        THEN \* Promise.all([])
             /\ stack' = SetTop(stack, [fr EXCEPT !.execRes = Null, !.pc = "post"])
             /\ UNCHANGED <<pheap, warnings, trace>>
        ELSE /\ pheap' = pheap \o [i \in 1..n |-> p(i)]
             /\ stack' = SetTop(stack,
                            [fr EXCEPT !.pc = "join", !.bi = 1,
                               !.branches = [i \in 1..n |->
                                   IF i = 1 THEN [st |-> "run", stk |-> <<>>]
                                   ELSE [st |-> "new", stk |-> thread(i)]]])
                          \o thread(1)
             /\ trace' = Append(trace, Event("orch", fr.id, 1, Null, Null, p(1)))
             /\ UNCHANGED warnings
  /\ UNCHANGED <<timers, handlers, delivered, helpers, cfg, nodes, succ, shared, exc, run, outcome>>

\* the running orchestration is suspended at an await (of prepAsync) or has
\* returned, and orchestration j runs: it is started if pr.map has not
\* reached it yet, resumed otherwise
Switch ==
  /\ exc = NoErr /\ InBranches
  /\ LET F == stack[1]
         cur == F.bi
         n == Len(F.branches)
         finished == Len(stack) = 1
         fresh == {i \in 1..n : F.branches[i].st = "new"}
     IN /\ finished \/ (Top.kind = "node" /\ Top.pc = "begin")
        /\ \E j \in 1..n :
             /\ j # cur /\ F.branches[j].st \in {"new", "run"}
             /\ fresh # {} => \A i \in fresh : j <= i
             /\ stack' = << [F EXCEPT !.bi = j,
                                !.branches[cur] = IF finished THEN @
                                                  ELSE [st |-> "run", stk |-> Tail(stack)],
                                !.branches[j] = [st |-> "run", stk |-> <<>>]] >>
                          \o F.branches[j].stk
             /\ trace' = IF F.branches[j].st = "new"
                          THEN Append(trace, Event("orch", F.id, j, Null, Null,
                                                   pheap[F.branches[j].stk[1].params]))
                          ELSE trace
  /\ UNCHANGED <<timers, handlers, delivered, helpers, cfg, nodes, succ, pheap, shared, exc, warnings, run, outcome>>

\* (a variant that resumes as soon as one orchestration has returned)
JoinOnFirst ==
  /\ Running /\ Len(stack) = 1 /\ Top.kind = "flow" /\ Top.pc = "join"
  /\ \E i \in DOMAIN Top.branches : Top.branches[i].st = "done"
  /\ stack' = SetTop(stack, [Top EXCEPT !.execRes = Null, !.pc = "post", !.branches = <<>>])
  /\ UNCHANGED <<timers, handlers, delivered, helpers, cfg, nodes, succ, pheap, shared, exc, warnings, trace, run, outcome>>

\* no orchestration of F is suspended
AllSettled(F) == \A i \in DOMAIN F.branches : F.branches[i].st \in {"done", "rejected"}

\* (a variant in which the rejection of Promise.all ends the remaining
\* orchestrations)
AfterRejectionCancelled(stk) == <<>>
\* what is left once _runAsync has thrown: nothing holds a reference to the
\* promises of the remaining orchestrations, and nothing cancels them: each
\* one is resumed when what it awaits settles
AfterRejection(stk) ==
  IF Len(stk) = 1 /\ AllSettled(stk[1]) THEN <<>>
  ELSE [stk EXCEPT ![1].pc = "detached"]

\* await Promise.all(...) is rejected: an orchestration has ended with an
\* error and _runAsync resumes by throwing it, while the remaining
\* orchestrations are suspended or have returned; postAsync is not reached.
\* No caller of _runAsync catches: the error reaches the application
JoinReject ==
  /\ exc = NoErr /\ InJoin /\ stack[1].err # NoErr
  /\ Len(stack) = 1 \/ (Top.kind = "node" /\ Top.pc = "begin")
  /\ outcome' = Append(outcome, [st |-> "threw", v |-> Null, err |-> stack[1].err])
  /\ stack' = AfterRejection(stack)
  /\ pheap' = IF stack' = <<>> THEN SubSeq(pheap, 1, stack[1].hbase) ELSE pheap
  /\ trace' = Append(trace, Event("reject", stack[1].id, 0, Null, Null, EmptyMap))
  /\ UNCHANGED <<timers, handlers, delivered, helpers, cfg, nodes, succ, shared, exc, warnings, run>>

\* the last of the orchestrations left behind by a rejected call has settled
Abandoned ==
  /\ exc = NoErr /\ Detached /\ Len(stack) = 1 /\ AllSettled(stack[1])
  /\ stack' = <<>>
  /\ pheap' = SubSeq(pheap, 1, stack[1].hbase)
  /\ UNCHANGED <<timers, handlers, delivered, helpers, cfg, nodes, succ, shared, exc, warnings, trace, run, outcome>>

\* await Promise.all(...) is fulfilled: every orchestration has returned;
\* the values they returned are not used
Join ==
  /\ Running /\ Len(stack) = 1 /\ Top.kind = "flow" /\ Top.pc = "join"
  /\ \A i \in DOMAIN Top.branches : Top.branches[i].st = "done"
  /\ stack' = SetTop(stack, [Top EXCEPT !.execRes = Null, !.pc = "post", !.branches = <<>>])
  /\ UNCHANGED <<timers, handlers, delivered, helpers, cfg, nodes, succ, pheap, shared, exc, warnings, trace, run, outcome>>

Next ==
  \/ CallRun
  \/ NodePrep \/ ExecBegin \/ ExecAttempt \/ Wake \/ TimerFires \/ Fallback \/ NodePost
  \/ FlowPrep \/ OrchBegin \/ BatchDone \/ Visit \/ OrchReturn \/ GetNext \/ FlowPost
  \/ Unwind

Spec == Init /\ [][Next]_vars

\* the engine runs to completion once called: every step of a run is a
\* synchronous call or an awaited promise that the hooks settle
FairSpec == Spec /\ WF_vars(Next)

\* applications whose hooks may also write keys into this.params in place,
\* register a successor on their own node or assign an attribute of it
InitW == InitWith({"none", "write", "set", "wire", "stash"})
SpecW == InitW /\ [][Next]_vars

\* applications that also use the parallel batch flow and the batch nodes
ParallelFlowConfigs ==
  { [Config("branch", "parallel", TRUE, 1, fb, "none") EXCEPT !.mayFail = mf] :
      fb \in {"raise", "value"}, mf \in {{"A"}, {"A", "B"}} }
    \cup { [Config("branch", "parallel", TRUE, 2, "raise", "none") EXCEPT !.mayFail = {"A"}] }
\* what prep of a batch node returns: an array, nothing, a non-array
\* object, a falsy non-array value (0, "", false)
ItemChoices == {[t |-> "arr", n |-> n] : n \in 0..MaxBatch}
                 \cup {[t |-> tt, n |-> 0] : tt \in {"null", "obj", "zero"}}
\* per element, the number of calls of exec that throw before one returns
FailChoices(items, k) ==
  LET cnt == IF items.t = "arr" THEN items.n ELSE IF items.t = "obj" THEN 1 ELSE 0 IN
  { f \in [1..MaxBatch -> 0..k] :
      \A i \in 1..MaxBatch : (i > cnt => f[i] = 0) /\ f[i] \in {0, 1, k} }
BatchNodeConfigs ==
  { [Config("lone", fam, FALSE, k, fb, "none") EXCEPT !.wait = w, !.items = it, !.failN = f] :
      fam \in {"bnode", "abnode", "pbnode"}, k \in 0..MaxRetries,
      fb \in {"raise", "value"}, w \in {0, 1}, it \in ItemChoices,
      f \in [1..MaxBatch -> 0..MaxRetries] }
ValidBatchNodeConfig(c) ==
  /\ c.failN \in FailChoices(c.items, c.maxRetries)
  /\ c.wait > 0 => c.maxRetries >= 2
ConfigsP == {c \in Configs({"none"}) : ValidConfig(c)} \cup WaitConfigs
              \cup ParallelFlowConfigs
              \cup {c \in BatchNodeConfigs : ValidBatchNodeConfig(c)}
InitP == InitFrom(ConfigsP)
NextP ==
  \/ Next
  \/ BatchPrep \/ BatchBegin \/ BatchItem \/ BatchAttempt \/ BatchFallback \/ BatchPost
  \/ ParStart \/ ParSettle \/ ParWake \/ ParJoin
  \/ Fork \/ Switch \/ Join \/ JoinReject \/ Abandoned
SpecP == InitP /\ [][NextP]_vars

\* applications whose nodes count in the shared context while they run as
\* orchestrations of a parallel batch flow: node A increments shared.counter
\* inside prep ("count"), or reads it in prep and stores the value read plus
\* one in post ("read")
CounterConfigs ==
  { [Config("branch", "parallel", TRUE, 1, fb, "none")
       EXCEPT !.prepKind = [id \in NodeIds |-> IF id = "A" THEN pk ELSE "none"]] :
      fb \in {"raise", "value"}, pk \in {"count", "read"} }
InitC == InitFrom(CounterConfigs)
NextC ==
  \/ CallRun
  \/ NodePrep \/ ExecBegin \/ ExecAttempt \/ Fallback \/ NodePost
  \/ FlowPrep \/ Visit \/ OrchReturn \/ GetNext \/ FlowPost
  \/ Unwind
  \/ Fork \/ Switch \/ Join \/ JoinReject \/ Abandoned
SpecC == InitC /\ [][NextC]_vars

\* the example search agent: an AsyncFlow over three AsyncNodes built with
\* maxRetries = parseInt(config.maxApiRetries, 10) || 3 and a positive wait;
\* the LLM and the search API may fail; the application's configured
\* config.maxAgentSearchAttempts is undefined or a number
MaxConfigured == 4
AgentConfigs ==
  { [Config("agent", "async", FALSE, k, "raise", "none")
       EXCEPT !.mayFail = {DecideNode, SearchNode, AnswerNode}, !.wait = 1,
              !.maxAgentSearchAttempts = m] :
      k \in {1, 2}, m \in {NotSet} \cup {Num(n) : n \in 0..MaxConfigured} }
InitA == InitFrom(AgentConfigs)
NextA ==
  \/ CallRun
  \/ NodePrep \/ ExecBegin \/ ExecAttempt \/ Wake \/ Fallback \/ NodePost
  \/ FlowPrep \/ OrchBegin \/ Visit \/ OrchReturn \/ GetNext \/ FlowPost
  \/ Unwind
SpecA == InitA /\ [][NextA]_vars
\* every await of the agent's run settles: the LLM and the search API answer
\* or fail, and the delay timers fire
FairSpecA == SpecA /\ WF_vars(NextA)

(* --------------------------- wiring and setup -------------------------- *)
MaxCalls == 3

NodeErr == "TypeError: Node must be a BaseNode instance"
ActionErr == "TypeError: Action must be a string"
ParamsErr == "TypeError: Parameters must be an object"
StartErr == "TypeError: Start node must be a BaseNode instance"
HandlerErr == "TypeError: Warning handler must be a function"
SetupErrors == {NodeErr, ActionErr, ParamsErr, StartErr, HandlerErr}

\* node instanceof BaseNode
IsBaseNode(v) == v \in NodeIds
\* typeChecks.validateString: typeof value === 'string'
IsString(v) == v \notin {Undefined, ANumber, Null}
\* params === null || typeof params !== 'object' is false
IsObject(v) == v \notin {Undefined, ANumber, Null}
\* the mapping the application passes to setParams
NewMap == [id |-> <<"S", 0, 0>>, tag |-> Absent]

\* warnings.warn(message): this.handlers.forEach(handler => handler(message))
Warn(d, hs, m) ==
  [h \in HandlerIds |->
     d[h] \o [i \in 1..Cardinality({j \in DOMAIN hs : hs[j] = h}) |-> m]]

OverwriteMsg(a) == "Overwriting successor for action '" \o a \o "'"

\* next(node, action = "default"): the default value of the parameter
DefaultAction(action) == IF action = Undefined THEN "default" ELSE action

\* BaseNode.next(node, action) on a node whose successors are s: the
\* successors afterwards, whether warnings.warn is called, and the value
\* returned or the error thrown
NodeNext(s, node, action) ==
  LET a == DefaultAction(action) IN
  IF ~IsBaseNode(node) THEN [succ |-> s, warn |-> FALSE, result |-> NodeErr]
  ELSE IF ~IsString(a) THEN [succ |-> s, warn |-> FALSE, result |-> ActionErr]
  ELSE [succ |-> SuccPut(s, a, node), warn |-> SuccGet(s, a) # Null, result |-> node]

\* the objects the wiring calls act on: node A (next, connect,
\* withTransition, setParams), flow F (start), the warning channel
Wiring ==
  [succ |-> succ["A"], params |-> pheap[nodes["A"].params], start |-> nodes["F"].startNode,
   helpers |-> helpers, handlers |-> handlers, delivered |-> delivered]

\* one call made by the application: what it was, the objects before and
\* after it, how many warnings it emitted, and what it returned or threw
SetupCall(op, args, before, after, warned, result) ==
  [op |-> op, args |-> args, before |-> before, after |-> after,
   warned |-> warned, result |-> result]

\* the application is wiring its objects: nothing runs yet
CanCall == Len(trace) < MaxCalls /\ stack = <<>> /\ run = 0

\* the state after a wiring call whose effect is the record w
Applied(op, args, w, msgs, result) ==
  /\ succ' = [succ EXCEPT !["A"] = w.succ]
  /\ IF w.params = Wiring.params
     THEN /\ pheap' = pheap
          /\ nodes' = [nodes EXCEPT !["F"].startNode = w.start]
     ELSE /\ pheap' = Append(pheap, w.params)
          /\ nodes' = [nodes EXCEPT !["F"].startNode = w.start,
                                     !["A"].params = SetParams(@, Len(pheap) + 1)]
  /\ helpers' = w.helpers
  /\ handlers' = w.handlers
  /\ delivered' = w.delivered
  /\ warnings' = warnings \o msgs
  /\ trace' = Append(trace, SetupCall(op, args, Wiring, w, Len(msgs), result))
  /\ UNCHANGED <<timers, cfg, shared, stack, exc, run, outcome>>

\* the effect of this.next(node, action) on node A
NextEffect(node, action) ==
  LET r == NodeNext(succ["A"], node, action)
      a == DefaultAction(action)
  IN [w |-> [Wiring EXCEPT !.succ = r.succ,
                           !.delivered = IF r.warn THEN Warn(delivered, handlers, OverwriteMsg(a))
                                         ELSE @],
      msgs |-> IF r.warn THEN <<OverwriteMsg(a)>> ELSE <<>>,
      result |-> r.result]

NodeArgs == {"B", "C", Null, APlainObject}
ActionArgs == {"default", "go", "constructor", Undefined, ANumber}

\* A.next(node, action)
CallNext ==
  /\ CanCall
  /\ \E node \in NodeArgs, action \in ActionArgs :
       LET e == NextEffect(node, action) IN
       Applied("next", [node |-> node, action |-> action], e.w, e.msgs, e.result)

\* A.connect(other): return this.next(other)
CallConnect ==
  /\ CanCall
  /\ \E other \in NodeArgs :
       LET e == NextEffect(other, Undefined) IN
       Applied("connect", [node |-> other, action |-> Undefined], e.w, e.msgs, e.result)

\* a reference to the i-th ConditionalTransition object
HelperRef(i) == "ConditionalTransition#" \o ToString(i)

\* A.withTransition(action): validateString, then a new ConditionalTransition
CallWithTransition ==
  /\ CanCall
  /\ \E action \in ActionArgs :
       IF IsString(action)
       THEN Applied("withTransition", [node |-> Null, action |-> action],
                    [Wiring EXCEPT !.helpers = Append(@, [src |-> "A", action |-> action])],
                    <<>>, HelperRef(Len(helpers) + 1))
       ELSE Applied("withTransition", [node |-> Null, action |-> action], Wiring, <<>>, ActionErr)

\* (a variant of ConditionalTransition.connect that registers "default")
TransitionActionDefault(h) == "default"

\* this.action of a ConditionalTransition
TransitionAction(h) == h.action

\* ConditionalTransition.connect(tgt): return this.src.next(tgt, this.action)
CallTransitionConnect ==
  /\ CanCall
  /\ \E i \in DOMAIN helpers, tgt \in NodeArgs :
       LET e == NextEffect(tgt, TransitionAction(helpers[i])) IN
       Applied("transition.connect", [node |-> tgt, action |-> i], e.w, e.msgs, e.result)

\* (a variant of setParams without the type test)
ParamsAcceptedAlways(p) == TRUE

\* setParams: !(params === null || typeof params !== 'object')
ParamsAccepted(p) == IsObject(p)

\* A.setParams(params)
CallSetParams ==
  /\ CanCall
  /\ \E p \in {Null, ANumber, APlainObject} :
       IF ParamsAccepted(p)
       THEN Applied("setParams", [node |-> p, action |-> Null],
                    [Wiring EXCEPT !.params = NewMap], <<>>, Undefined)
       ELSE Applied("setParams", [node |-> p, action |-> Null], Wiring, <<>>, ParamsErr)

\* F.start(startNode)
CallStart ==
  /\ CanCall
  /\ \E n \in NodeArgs :
       IF IsBaseNode(n)
       THEN Applied("start", [node |-> n, action |-> Null], [Wiring EXCEPT !.start = n], <<>>, n)
       ELSE Applied("start", [node |-> n, action |-> Null], Wiring, <<>>, StartErr)

\* utils.addWarningHandler(handler)
CallAddHandler ==
  /\ CanCall
  /\ \E h \in {"h1", ANumber} :
       IF h \in HandlerIds
       THEN Applied("addHandler", [node |-> h, action |-> Null],
                    [Wiring EXCEPT !.handlers = Append(@, h)], <<>>, Undefined)
       ELSE Applied("addHandler", [node |-> h, action |-> Null], Wiring, <<>>, HandlerErr)

\* clearHandlers: this.handlers = []
Cleared == <<>>

\* utils.clearWarningHandlers()
CallClearHandlers ==
  /\ CanCall
  /\ Applied("clearHandlers", [node |-> Null, action |-> Null],
             [Wiring EXCEPT !.handlers = Cleared], <<>>, Undefined)

\* an application that has constructed its nodes and now wires them
SetupConfigs == {Config("lone", "sync", FALSE, 1, "raise", "none")}
InitS == InitFrom(SetupConfigs)
NextS ==
  \/ CallNext \/ CallConnect \/ CallWithTransition \/ CallTransitionConnect
  \/ CallSetParams \/ CallStart \/ CallAddHandler \/ CallClearHandlers
SpecS == InitS /\ [][NextS]_vars

(* ======================= properties of the engine ====================== *)
\* index of the last prep event of the run so far (0: none)
LastPrep ==
  CHOOSE i \in 0..Len(trace) :
    /\ i = 0 \/ trace[i].ev = "prep"
    /\ \A j \in (i + 1)..Len(trace) : trace[j].ev # "prep"

\* while a node frame is on top: the events of its _exec call
CallEvents == SubSeq(trace, LastPrep + 1, Len(trace))
ExecEvs == SelectSeq(CallEvents, LAMBDA e : e.ev = "exec")
FbEvs == SelectSeq(CallEvents, LAMBDA e : e.ev = "fallback")
AllThrow(es) == \A j \in DOMAIN es : es[j].x = "throw"
InNode == stack # <<>> /\ Top.kind = "node" /\ Top.pc # "prep"

\* C1: with maxRetries = k >= 1 and exec failing on every attempt, one _exec
\* call invokes exec exactly k times, then the fallback hook exactly once,
\* after the k-th failure and not before, with curRetry = k - 1 at that time.
C1_RetryExhaustion ==
  (InNode /\ cfg.maxRetries >= 1) =>
    LET k == cfg.maxRetries IN
    /\ Len(ExecEvs) <= k
    /\ Len(FbEvs) <= 1
    /\ (Len(FbEvs) = 1 \/ Top.pc = "fallback") =>
          /\ Len(ExecEvs) = k
          /\ AllThrow(ExecEvs)
          /\ InstCurRetry(Top) = k - 1
    /\ Len(FbEvs) = 1 =>
          /\ FbEvs[1].i = k - 1
          /\ CallEvents[Len(CallEvents)] = FbEvs[1]
    /\ (Len(ExecEvs) = k /\ AllThrow(ExecEvs)) => (Top.pc = "fallback" \/ Len(FbEvs) = 1)

C1_Witness ==
  /\ InNode /\ cfg.maxRetries = MaxRetries
  /\ Len(FbEvs) = 1 /\ Len(ExecEvs) = MaxRetries

\* C2: with maxRetries = k, when exec first succeeds on attempt j <= k, the
\* _exec call has invoked exec exactly j times (attempts 0..j-1, all but the
\* last failing), has not invoked the fallback hook, and returns the value of
\* the j-th attempt.
C2_RetrySuccess ==
  (InNode /\ ExecEvs # <<>> /\ ExecEvs[Len(ExecEvs)].x = "ok") =>
    LET j == Len(ExecEvs) IN
    /\ j <= cfg.maxRetries
    /\ \A a \in 1..j : ExecEvs[a].i = a - 1
    /\ \A a \in 1..(j - 1) : ExecEvs[a].x = "throw"
    /\ FbEvs = <<>>
    /\ CallEvents[Len(CallEvents)] = ExecEvs[j]
    /\ Top.pc = "post" /\ Top.execRes = ExecEvs[j].v
    /\ Top.execRes = cfg.execVal[Top.id][j - 1]

C2_Witness ==
  /\ InNode /\ Len(ExecEvs) = MaxRetries /\ MaxRetries >= 2
  /\ ExecEvs[Len(ExecEvs)].x = "ok" /\ Top.execRes = "go"

Finished == run >= 1 /\ stack = <<>> /\ exc = NoErr /\ Len(outcome) = run

\* C3: when exec fails on its last attempt and the default fallback rethrows,
\* the original error leaves every enclosing activation and reaches the
\* caller of run / runAsync: no lifecycle event follows the fallback (no post
\* of the node, no further visit, no later parameter set of a batch flow, no
\* post of an enclosing flow) and nothing resets the error on the way.
C3_ErrorPropagates ==
  \A i \in DOMAIN trace :
    (trace[i].ev = "fallback" /\ trace[i].x = "raise") =>
      LET e == ExecErr(trace[i].node, cfg.maxRetries - 1) IN
      /\ i = Len(trace)
      /\ \/ stack # <<>> /\ exc = e
         \/ Finished /\ outcome[run] = [st |-> "threw", v |-> Null, err |-> e]

C3_Witness ==
  /\ exc.name = "ExecError"
  /\ Len(stack) >= 5
  /\ stack[1].kind = "flow" /\ stack[1].pc = "wait" /\ stack[1].bi < stack[1].prepRes.n
  /\ stack[3].kind = "flow" /\ stack[3].clone

\* C4: when exec fails on every attempt and the overridden fallback returns
\* v, _exec returns v, post is invoked with v as the execution result, and the
\* enclosing flow looks up the successor for the action post returned and
\* visits it; the exec failure never surfaces as an error of the run.
C4_FallbackValue ==
  /\ cfg.fallback = "value" =>
       /\ exc.name # "ExecError"
       /\ \A r \in DOMAIN outcome : outcome[r].err.name # "ExecError"
  /\ \A i \in DOMAIN trace :
       (trace[i].ev = "fallback" /\ trace[i].x = "value") =>
         LET n == trace[i].node
             L == Len(trace)
         IN /\ i = L => /\ InNode /\ Top.id = n /\ Top.pc = "post"
                        /\ Top.execRes = cfg.fbVal /\ exc = NoErr
            /\ i < L => trace[i+1].ev = "post" /\ trace[i+1].node = n /\ trace[i+1].v = cfg.fbVal
            /\ i + 1 = L =>
                 /\ exc = NoErr
                 /\ \/ Finished /\ outcome[run] = [st |-> "returned", v |-> trace[L].x, err |-> NoErr]
                    \/ stack # <<>> /\ Top.kind = "orch" /\ Top.pc = "next"
                         /\ Top.curr = n /\ Top.lastAction = trace[L].x
            /\ i + 2 <= L =>
                 /\ trace[i+2].ev = "next" /\ trace[i+2].node = n /\ trace[i+2].v = trace[i+1].x
                 /\ (trace[i+1].x = "go" /\ "go" \in DOMAIN succ[n]) => trace[i+2].x = succ[n]["go"]
            /\ (i + 3 <= L /\ trace[i+2].x \in NodeIds) =>
                 trace[i+3].ev = "visit" /\ trace[i+3].node = trace[i+2].x

C4_Witness ==
  \E i \in DOMAIN trace :
    /\ trace[i].ev = "fallback" /\ trace[i].x = "value" /\ trace[i].node = "A"
    /\ i + 3 <= Len(trace)
    /\ trace[i+1].x = "go"
    /\ trace[i+3].ev = "visit" /\ trace[i+3].node = "B"

\* C5: successor lookup on node N with (effective) action a: a registered
\* label yields the node registered for it and no warning; an unregistered
\* label on a node with successors yields no node and exactly one warning, and
\* the flow ends without an error; a node without successors yields no node
\* and no warning.
C5_SuccessorLookup ==
  \A i \in DOMAIN trace :
    trace[i].ev = "next" =>
      LET s == succ[trace[i].node]
          a == IF trace[i].v \in Falsy THEN "default" ELSE trace[i].v
      IN /\ a \in DOMAIN s => trace[i].x = s[a] /\ trace[i].i = 0
         /\ (a \notin DOMAIN s /\ DOMAIN s # {}) =>
               /\ trace[i].x = Null /\ trace[i].i = 1
               /\ i = Len(trace) => exc = NoErr
               /\ i < Len(trace) => trace[i+1].ev = "orchret"
         /\ DOMAIN s = {} => trace[i].x = Null /\ trace[i].i = 0

\* C6: when post returns an empty or absent action, the flow follows the
\* successor registered under "default": it is the node the lookup yields
\* (without a warning) and the next node visited.
C6_EmptyActionDefault ==
  \A i \in DOMAIN trace :
    (trace[i].ev = "next" /\ trace[i].v \in {"", Null}
       /\ "default" \in DOMAIN succ[trace[i].node]) =>
      LET c == succ[trace[i].node]["default"] IN
      /\ trace[i].x = c /\ trace[i].i = 0
      /\ i = Len(trace) => stack # <<>> /\ Top.kind = "orch" /\ Top.curr = c /\ exc = NoErr
      /\ i < Len(trace) => trace[i+1].ev = "visit" /\ trace[i+1].node = c

C6_Witness ==
  \E i \in DOMAIN trace :
    /\ trace[i].ev = "next" /\ trace[i].node = "A" /\ trace[i].v = ""
    /\ DOMAIN succ["A"] = {"go", "default"}
    /\ i < Len(trace) /\ trace[i+1].ev = "visit" /\ trace[i+1].node = "C"

\* number of visits of a node in the current run
Visits(n) == Len(SelectSeq(trace, LAMBDA e : e.ev = "prep" /\ e.node = n))

C7_Counts ==
  cfg.graph = "loop" =>
    /\ Visits("A") <= 3 /\ Visits("B") <= 2
    /\ Finished => Visits("A") = 3 /\ Visits("B") = 2 /\ outcome[run].st = "returned"

\* C7: a flow over the cycle A -loop-> B -loop-> A, A -done-> end, where A
\* counts its visits in the shared context and returns "done" once the count
\* reaches 3, terminates, having visited A exactly 3 times and B exactly 2.
C7_LoopTerminates ==
  /\ []C7_Counts
  /\ (cfg.graph = "loop" /\ stack # <<>>) ~> Finished

C7_Witness ==
  /\ cfg.graph = "loop" /\ Finished /\ run = 2
  /\ Visits("A") = 3 /\ Visits("B") = 2 /\ shared[1].counter = 3 /\ shared[2].counter = 3

\* C8: flow runs leave the params of every canonical node as they were: the
\* same mapping object, with the same contents.
C8_CanonicalParamsKept ==
  IsFlow(cfg.cls[cfg.top]) =>
    \A n \in NodeIds :
      /\ nodes[n].params = Ref(n)
      /\ pheap[Ref(n)] = IF n = cfg.top THEN TopParams(cfg.graph) ELSE OwnMap

C8_Witness ==
  /\ Finished /\ run = 2
  /\ IsBatchFlow(cfg.cls[cfg.top]) /\ cfg.hook["A"] = "write"
  /\ outcome[1].st = "returned" /\ outcome[2].st = "returned"
  /\ Len(shared[1].seen) >= 3

\* the parameter mappings the visits of run r are to see
ExpectedParams(r) ==
  IF IsBatchFlow(cfg.cls[cfg.top])
  THEN {[id |-> <<"P", r, i>>, tag |-> TopParams(cfg.graph).tag] : i \in 1..shared[r].batch.n}
  ELSE {TopParams(cfg.graph)}

\* C9: running the same flow twice, with shared contexts S1, S2 and override
\* sets P1, P2: every visit of run r sees exactly Pr merged over the flow's
\* base parameters, and a context holds nothing seen in the other run.
C9_RunIsolation ==
  IsFlow(cfg.cls[cfg.top]) =>
    /\ \A r \in 1..run : \A j \in DOMAIN shared[r].seen :
         shared[r].seen[j].params \in ExpectedParams(r)
    /\ \A r \in Ctxs : r > run => shared[r].seen = <<>>

C9_Witness ==
  /\ Finished /\ run = 2 /\ IsBatchFlow(cfg.cls[cfg.top]) /\ cfg.hook["A"] = "set"
  /\ Len(shared[1].seen) >= 2 /\ Len(shared[2].seen) >= 2
  /\ shared[1].seen[2].params.id = <<"P", 1, 1>>
  /\ shared[2].seen[2].params.id = <<"P", 2, 1>>

TopOrch == SelectSeq(trace, LAMBDA e : e.ev = "orch" /\ e.node = cfg.top)
TopOrchRet == SelectSeq(trace, LAMBDA e : e.ev = "orchret" /\ e.node = cfg.top)

\* C10: a batch flow whose prep yields [b1..bn] invokes the orchestration
\* exactly n times, in input order, the i-th with the flow's params with bi
\* merged on top, each only after the previous one returned; no prep result
\* gives none.
C10_BatchFlowOrder ==
  (IsBatchFlow(cfg.cls[cfg.top]) /\ run >= 1) =>
    LET n == IF shared[run].batch.t = "arr" THEN shared[run].batch.n ELSE 0 IN
    /\ Len(TopOrch) <= n
    /\ \A j \in DOMAIN TopOrch :
         TopOrch[j].i = j /\ TopOrch[j].m = [id |-> <<"P", run, j>>, tag |-> TopParams(cfg.graph).tag]
    /\ Len(TopOrchRet) \in {Len(TopOrch), Len(TopOrch) - 1}
    /\ (Finished /\ outcome[run].st = "returned") =>
          Len(TopOrch) = n /\ Len(TopOrchRet) = n

C10_Witness ==
  /\ IsBatchFlow(cfg.cls[cfg.top]) /\ Finished /\ run = 1
  /\ outcome[1].st = "returned"
  /\ Len(TopOrch) = MaxBatch /\ MaxBatch >= 2

TopPosts == SelectSeq(trace, LAMBDA e : e.ev = "flowpost" /\ e.node = cfg.top)
\* what a batch flow passes to post as the prep result: pr = prep() || []
BatchPrepArg(r) ==
  IF shared[r].batch.t = "obj" THEN shared[r].batch
  ELSE [t |-> "arr", n |-> shared[r].batch.n]

\* C11: a batch flow run (sequential or parallel) that completes invokes
\* its post phase exactly once, after every sub-run has returned, with the
\* parameter sequence from prep and null as the execution result, and
\* returns what post returns; the actions the sub-runs return reach neither
\* post nor the caller.
C11_BatchFlowPost ==
  (IsBatchFlow(cfg.cls[cfg.top]) /\ run >= 1) =>
    LET n == IF shared[run].batch.t = "arr" THEN shared[run].batch.n ELSE 0 IN
    /\ Len(TopPosts) <= 1
    /\ \A i \in DOMAIN trace :
         (trace[i].ev = "flowpost" /\ trace[i].node = cfg.top) =>
            /\ i = Len(trace)
            /\ trace[i].v = Null /\ trace[i].x = Null
            /\ Len(TopOrch) = n /\ Len(TopOrchRet) = n
            /\ Finished /\ outcome[run] = [st |-> "returned", v |-> Null, err |-> NoErr]
    /\ (stack # <<>> /\ Top.kind = "flow" /\ Top.id = cfg.top /\ Top.pc = "post") =>
         /\ Top.execRes = Null /\ Top.prepRes = BatchPrepArg(run)
         /\ Len(TopOrch) = n /\ Len(TopOrchRet) = n
         /\ TopPosts = <<>>
    /\ (Finished /\ outcome[run].st = "returned") => Len(TopPosts) = 1

\* a parallel run of two sub-runs that overlap and return actions
C11_Witness ==
  /\ IsParallelFlow(cfg.cls[cfg.top]) /\ Finished /\ outcome[run].st = "returned"
  /\ Len(TopPosts) = 1 /\ Len(TopOrchRet) = 2
  /\ TopOrchRet[1].x = "go" /\ TopOrchRet[2].x = "nope"
  /\ \E i, j \in DOMAIN trace :
       i < j /\ trace[i] = TopOrch[2] /\ trace[j] = TopOrchRet[1]

\* the calls of exec made for the b-th element of a batch node
ItemExecs(b) == SelectSeq(trace, LAMBDA e : e.ev = "bexec" /\ e.m = b)
ItemFallbacks(b) == SelectSeq(trace, LAMBDA e : e.ev = "bfallback" /\ e.m = b)
\* the outcome of the retrying execute logic for the b-th element
ItemOutcome(b) == IF cfg.failN[b] < cfg.maxRetries THEN ItemVal(b) ELSE cfg.fbVal
InBatchNode == stack # <<>> /\ Top.kind = "bnode"
SeqBatchNode == cfg.cls[cfg.top] \in {"BatchNode", "AsyncBatchNode"}

\* C12: a sequential batch node given [x1..xn] returns n results, the i-th
\* being the outcome of the retrying logic for xi (exec's value, or the
\* fallback's value once xi used up its attempts); every element counts its
\* attempts from 0 and has maxRetries of them, whatever earlier elements used.
C12_BatchNodeResults ==
  (SeqBatchNode /\ InBatchNode /\ Top.prepRes.t = "arr" /\ cfg.maxRetries >= 1) =>
    LET n == Top.prepRes.n
        k == cfg.maxRetries
    IN /\ Len(Top.results) <= n
       /\ \A b \in DOMAIN Top.results : Top.results[b] = ItemOutcome(b)
       /\ Top.pc = "post" => Len(Top.results) = n
       /\ \A b \in 1..n :
            LET es == ItemExecs(b) IN
            /\ Len(es) <= k
            /\ \A a \in DOMAIN es : es[a].i = a - 1
            /\ b <= Len(Top.results) =>
                 /\ Len(es) = IF cfg.failN[b] < k THEN cfg.failN[b] + 1 ELSE k
                 /\ Len(ItemFallbacks(b)) = IF cfg.failN[b] < k THEN 0 ELSE 1
            /\ b > Len(Top.results) + 1 => es = <<>>

C12_Witness ==
  /\ SeqBatchNode /\ InBatchNode /\ Top.pc = "post"
  /\ cfg.maxRetries = MaxRetries /\ MaxRetries >= 2
  /\ Top.results = <<"r1", "go">>
  /\ Len(ItemExecs(1)) = 2 /\ Len(ItemExecs(2)) = MaxRetries

BatchWarnings == SelectSeq(warnings, LAMBDA w : w = "BatchNode expected an array")

\* C13: a batch node (sequential or parallel) whose prep result is a value
\* that is not a sequence emits a warning, runs the retrying execute logic
\* once on that value and returns a one-element sequence with its result.
C13_NonSequenceInput ==
  (InBatchNode /\ Top.prepRes.t \in {"obj", "zero"} /\ cfg.maxRetries >= 1) =>
    /\ Top.pc \notin {"prep", "begin"} => Len(BatchWarnings) = 1
    /\ Top.pc = "post" =>
         /\ Top.results = << ItemOutcome(1) >>
         /\ ItemExecs(1) # <<>>

ParBatchNode == IsParallelNode(cfg.cls[cfg.top])
\* the items whose execAsync rejects on every attempt
AlwaysFailing ==
  IF cfg.items.t = "arr"
  THEN {b \in 1..cfg.items.n : cfg.failN[b] >= cfg.maxRetries}
  ELSE {}

\* the items whose execAsync rejects at least once
Rejecting ==
  IF cfg.items.t = "arr" THEN {b \in 1..cfg.items.n : cfg.failN[b] >= 1} ELSE {}

\* C14: a parallel batch node given items of which at least one rejects on
\* every attempt (with the default fallback) rejects with the error of an
\* item whose execAsync rejected and never resolves, for every
\* maxRetries >= 1, every wait >= 0 and every interleaving of the branches.
C14_ParallelRejects ==
  (ParBatchNode /\ cfg.fallback = "raise" /\ cfg.maxRetries >= 1 /\ AlwaysFailing # {}) =>
    /\ InBatchNode => Top.pc # "post"
    /\ \A r \in DOMAIN outcome :
         /\ outcome[r].st = "threw"
         /\ outcome[r].err.name = "ExecError"
         /\ outcome[r].err.i \in Rejecting

\* position in the trace of the event that fulfilled branch b (0: none)
OkAt(b) ==
  IF \E i \in DOMAIN trace : trace[i].ev = "bexec" /\ trace[i].m = b /\ trace[i].x = "ok"
  THEN CHOOSE i \in DOMAIN trace : trace[i].ev = "bexec" /\ trace[i].m = b /\ trace[i].x = "ok"
  ELSE 0

\* C15: when every branch of a parallel batch node succeeds, the returned
\* sequence has the length of the input and its i-th entry is the result for
\* item i, in whatever order the branches completed.
C15_ParallelOrder ==
  (ParBatchNode /\ InBatchNode /\ Top.pc = "post" /\ Top.prepRes.t = "arr") =>
    /\ Len(Top.results) = Top.prepRes.n
    /\ \A b \in DOMAIN Top.results :
         /\ OkAt(b) # 0 => Top.results[b] = ItemVal(b) /\ trace[OkAt(b)].v = ItemVal(b)
         /\ Top.results[b] \in {ItemVal(c) : c \in 1..MaxBatch} => Top.results[b] = ItemVal(b)

\* both branches succeed, the second one first
C15_Witness ==
  /\ ParBatchNode /\ InBatchNode /\ Top.pc = "post"
  /\ Top.results = <<"r1", "r2">>
  /\ OkAt(1) > OkAt(2) /\ OkAt(2) > 0

Lifecycle == {"prep", "exec", "fallback", "post", "flowprep", "flowpost", "orch", "visit"}
\* the node the error names has gone through no lifecycle phase since it was
\* selected: the trace ends with the step that selected it
NotStarted(n) ==
  \/ trace = <<>> /\ n = cfg.top
  \/ /\ trace # <<>>
     /\ LET e == trace[Len(trace)] IN
        \/ e.ev = "next" /\ e.x = n
        \/ e.ev = "orch" /\ nodes[e.node].startNode = n

\* C16: run() on an AsyncNode or AsyncFlow, and a synchronous Flow reaching
\* an AsyncNode, fail with an error before any lifecycle phase of that object
\* runs; the nodes the flow visited before have run and what they wrote to
\* the shared context remains.
C16_ModelsNotInterchangeable ==
  /\ exc.name = AsyncSyncErr("A").name =>
       RunThrows(cfg.cls[exc.node]) /\ NotStarted(exc.node)
  /\ cfg.family = "wrongentry" =>
       /\ trace = <<>>
       /\ \A r \in 1..run : shared[r].seen = <<>>
       /\ \A r \in DOMAIN outcome :
            outcome[r] = [st |-> "threw", v |-> Null, err |-> AsyncSyncErr(cfg.top)]
  /\ cfg.family = "bad" =>
       /\ Visits("B") = 0
       /\ \A i \in DOMAIN trace :
            (trace[i].ev = "next" /\ trace[i].x = "B") =>
               /\ i = Len(trace)
               /\ shared[run].seen # <<>>
               /\ shared[run].seen[Len(shared[run].seen)].node = "A"
               /\ \/ stack # <<>> /\ exc \in {NoErr, AsyncSyncErr("B")}
                  \/ Finished /\ outcome[run] = [st |-> "threw", v |-> Null,
                                                   err |-> AsyncSyncErr("B")]

C16_Witness ==
  /\ cfg.family = "bad" /\ Finished
  /\ outcome[run].err = AsyncSyncErr("B")
  /\ Len(shared[run].seen) = 1 /\ shared[run].seen[1].node = "A"

\* C17: a Flow's run is post(shared, prep(shared), orchestrate(shared)),
\* prep coming before the first inner node and post after the last; when a
\* Flow is a node of a parent Flow, the parent selects the next node by
\* looking up the inner flow's post result (by default the last action of
\* its orchestration) in the inner flow's successors, as for any node.
C17_FlowAsNode ==
  \A i \in DOMAIN trace :
    LET e == trace[i] IN
    /\ (e.ev = "orch" /\ ~IsBatchFlow(cfg.cls[e.node])) =>
          i > 1 /\ trace[i-1].ev = "flowprep" /\ trace[i-1].node = e.node
    /\ (e.ev = "flowpost" /\ ~IsBatchFlow(cfg.cls[e.node])) =>
          /\ i > 1 /\ trace[i-1].node = e.node
          /\ \/ trace[i-1].ev = "orchret" /\ e.v = trace[i-1].x
             \/ trace[i-1].ev = "orch" /\ nodes[e.node].startNode = Null /\ e.v = Null
          /\ e.x = e.v
    /\ (e.ev = "flowpost" /\ e.node # cfg.top) =>
          /\ i = Len(trace) =>
                stack # <<>> /\ Top.kind = "orch" /\ Top.pc = "next"
                  /\ Top.curr = e.node /\ Top.lastAction = e.x
          /\ i < Len(trace) =>
                /\ trace[i+1].ev = "next" /\ trace[i+1].node = e.node
                /\ trace[i+1].v = e.x
                /\ trace[i+1].x = GetNextNode(succ[e.node], e.x)
          /\ (i + 1 < Len(trace) /\ trace[i+1].x \in NodeIds) =>
                trace[i+2].ev = "visit" /\ trace[i+2].node = trace[i+1].x

C17_Witness ==
  /\ cfg.graph = "nested" /\ cfg.cls["G"] = "Flow" /\ cfg.cls["F"] = "Flow"
  /\ \E i \in DOMAIN trace :
       /\ trace[i].ev = "flowpost" /\ trace[i].node = "G" /\ trace[i].x = "go"
       /\ i + 2 <= Len(trace)
       /\ trace[i-1].ev = "orchret" /\ trace[i-1].x = "go"
       /\ trace[i+1].ev = "next" /\ trace[i+1].x = "C"
       /\ trace[i+2].ev = "visit" /\ trace[i+2].node = "C"

\* C18: an AsyncFlow used as a node of a parent AsyncFlow is driven through
\* its asynchronous lifecycle and the parent goes on with the successor
\* matching its postAsync result; the nested run does not fail because the
\* sub-node is a flow.
C18_NestedAsyncFlow ==
  (cfg.graph = "nested" /\ IsAsyncFlow(cfg.cls["F"]) /\ IsAsyncFlow(cfg.cls["G"])) =>
    /\ exc # AsyncSyncErr("G")
    /\ \A r \in DOMAIN outcome : outcome[r].err # AsyncSyncErr("G")
    /\ \A i \in DOMAIN trace :
         (trace[i].ev = "orch" /\ trace[i].node = "F" /\ i < Len(trace)) =>
            trace[i+1].ev = "visit" /\ trace[i+1].node = "G" /\ trace[i+1].x = "async"

\* C19: running a Flow or AsyncFlow without a start node emits exactly one
\* warning from the orchestration, runs no node, raises no error and, with
\* the default post, returns null.
C19_NoStartNode ==
  cfg.graph = "nostart" =>
    /\ exc = NoErr
    /\ \A i \in DOMAIN trace : trace[i].ev \in {"flowprep", "orch", "flowpost"}
    /\ warnings = IF \E i \in DOMAIN trace : trace[i].ev = "orch"
                  THEN <<"Flow has no start node">> ELSE <<>>
    /\ \A r \in 1..run : shared[r].seen = <<>>
    /\ \A r \in DOMAIN outcome : outcome[r] = [st |-> "returned", v |-> Null, err |-> NoErr]

C19_Witness ==
  /\ cfg.graph = "nostart" /\ IsAsyncFlow(cfg.cls["F"]) /\ Finished /\ run = 2
  /\ warnings = <<"Flow has no start node">>
  /\ trace[Len(trace)].ev = "flowpost"

SuccessorWarnings == SelectSeq(warnings, LAMBDA w : w = "Node won't run successors")
Standalone == cfg.top = "A" /\ cfg.cls["A"] \in {"Node", "AsyncNode"}
                /\ cfg.family \in {"sync", "async"}
EventCount(ev) == Cardinality({i \in DOMAIN trace : trace[i].ev = ev})

\* C20: run / runAsync of a node on its own executes prep, the retrying
\* exec and post, each once and in that order, and returns what post
\* returns; it warns exactly once if the node has a successor and not at all
\* if it has none, visits no successor, and raises no error because of them.
C20_StandaloneRun ==
  (Standalone /\ run >= 1) =>
       /\ Len(SuccessorWarnings) = (IF DOMAIN succ["A"] # {} THEN 1 ELSE 0)
       /\ \A i \in DOMAIN warnings :
            warnings[i] \in {"Node won't run successors", "Synchronous wait"}
       /\ \A i \in DOMAIN trace :
            /\ trace[i].node = "A"
            /\ trace[i].ev \in {"prep", "exec", "wake", "fallback", "post"}
            /\ (trace[i].ev = "prep") <=> (i = 1)
            /\ (trace[i].ev = "post") => (i = Len(trace))
       /\ EventCount("prep") <= 1
       /\ EventCount("post") <= 1
       /\ \A r \in 1..run : \A j \in DOMAIN shared[r].seen : shared[r].seen[j].node = "A"
       /\ exc.name \in {"none", "ExecError"}
       /\ \A r \in DOMAIN outcome :
            (outcome[r].st = "threw") => (outcome[r].err.name = "ExecError")
       /\ (Len(outcome) = run /\ outcome[run].st = "returned") =>
            /\ EventCount("prep") = 1
            /\ EventCount("post") = 1
            /\ outcome[run].v = trace[Len(trace)].x
            /\ (cfg.maxRetries >= 1) => (trace[Len(trace) - 1].ev \in {"exec", "fallback"})

\* a node with successors run on its own, the exec succeeding on a retry
C20_Witness ==
  /\ Standalone /\ cfg.graph = "solo" /\ cfg.cls["A"] = "AsyncNode"
  /\ Finished /\ run = 1 /\ outcome[1].st = "returned" /\ outcome[1].v = "go"
  /\ warnings = <<"Node won't run successors">>
  /\ Len(trace) = 4

\* the label a registering call (next, connect, ConditionalTransition.connect)
\* was given
CallLabel(c) ==
  CASE c.op = "next" -> IF c.args.action = Undefined THEN "default" ELSE c.args.action
    [] c.op = "connect" -> "default"
    [] c.op = "transition.connect" -> c.before.helpers[c.args.action].action
    [] OTHER -> Undefined
\* the calls that register a node under label l
Registering(l) ==
  {i \in DOMAIN trace : /\ trace[i].op \in {"next", "connect", "transition.connect"}
                         /\ trace[i].args.node \in NodeIds
                         /\ CallLabel(trace[i]) = l}
LastOf(S) == CHOOSE i \in S : \A j \in S : j <= i

\* C21: after any sequence of valid next calls the successor map holds for
\* each label the node of the most recent call with that label; a call warns
\* exactly once if its label was already registered and not at all
\* otherwise, returns the node, and leaves the other labels' entries alone.
C21_LastWriteWins ==
  /\ \A l \in Labels :
       IF Registering(l) = {} THEN l \notin DOMAIN succ["A"]
       ELSE l \in DOMAIN succ["A"] /\ succ["A"][l] = trace[LastOf(Registering(l))].args.node
  /\ \A i \in DOMAIN trace :
       LET c == trace[i]
           a == CallLabel(c)
       IN (c.op = "next" /\ c.args.node \in NodeIds /\ a \in Labels) =>
            /\ c.result = c.args.node
            /\ c.warned = (IF a \in DOMAIN c.before.succ THEN 1 ELSE 0)
            /\ \A l \in DOMAIN c.before.succ \ {a} :
                 l \in DOMAIN c.after.succ /\ c.after.succ[l] = c.before.succ[l]

Malformed(c) ==
  \/ c.op = "setParams" /\ c.args.node \in {Null, ANumber}
  \/ c.op = "next" /\ (c.args.node \notin NodeIds \/ c.args.action = ANumber)
  \/ c.op = "withTransition" /\ c.args.action \in {Undefined, ANumber}
  \/ c.op = "start" /\ c.args.node \notin NodeIds

NextOutcome(before, node, action) ==
  LET r == NodeNext(before.succ, node, action) IN
  [after |-> [before EXCEPT
                !.succ = r.succ,
                !.delivered = IF r.warn
                              THEN Warn(before.delivered, before.handlers, OverwriteMsg(action))
                              ELSE @],
   warned |-> IF r.warn THEN 1 ELSE 0,
   result |-> r.result]
OutcomeOf(c) == [after |-> c.after, warned |-> c.warned, result |-> c.result]
\* the label passed to the withTransition call that returned helper h
LabelGiven(h) ==
  LET j == CHOOSE j \in DOMAIN trace :
             trace[j].op = "withTransition" /\ trace[j].result = HelperRef(h)
  IN trace[j].args.action

\* C23: connect(n) has the effect and result of next(n, "default");
\* withTransition(a).connect(t) has the effect and result of next(t, a),
\* overwrite warning and returned node included; withTransition(a) alone
\* changes no successor.
C23_ConnectSugar ==
  \A i \in DOMAIN trace :
    LET c == trace[i] IN
    /\ c.op = "connect" => OutcomeOf(c) = NextOutcome(c.before, c.args.node, "default")
    /\ c.op = "transition.connect" =>
         OutcomeOf(c) = NextOutcome(c.before, c.args.node, LabelGiven(c.args.action))
    /\ c.op = "withTransition" =>
         /\ c.after.succ = c.before.succ /\ c.after.delivered = c.before.delivered
         /\ c.warned = 0

\* a helper made for "go" before "go" is registered overwrites it later
C23_Witness ==
  /\ Len(trace) = 3
  /\ trace[1].op = "withTransition" /\ trace[1].args.action = "go"
  /\ trace[2].op = "next" /\ trace[2].args = [node |-> "B", action |-> "go"]
  /\ trace[3].op = "transition.connect" /\ trace[3].args.node = "C"
  /\ trace[3].warned = 1 /\ trace[3].result = "C"
  /\ succ["A"] = [go |-> "C"]
  /\ delivered[DefaultHandler] = <<"Overwriting successor for action 'go'">>

\* C24: a warning emitted while no handler is registered (after
\* clearWarningHandlers) still reaches the default handler console.warn.
C24_DefaultHandlerKept ==
  \A i \in DOMAIN trace :
    LET c == trace[i] IN
    (c.warned >= 1 /\ c.before.handlers = <<>>) =>
       Len(c.after.delivered[DefaultHandler]) = Len(c.before.delivered[DefaultHandler]) + c.warned

\* the attempts and timer events of node n, in order
Attempts(n) == SelectSeq(trace, LAMBDA e : e.node = n /\ e.ev \in {"exec", "wake", "fallback"})

\* C25: an AsyncNode with wait > 0 starts the attempt after a failed one
\* that was not the last only once the delay timer set after that failure
\* has fired; after the last failed attempt the fallback runs at once, and
\* with wait = 0 there is no delay at all.
C25_AwaitedDelay ==
  \A n \in {"A", "B", "C"} :
    IsAsyncNode(cfg.cls[n]) =>
      LET es == Attempts(n)
          k == cfg.maxRetries
      IN \A i \in DOMAIN es :
           /\ (es[i].ev = "exec" /\ es[i].x = "throw" /\ i < Len(es)) =>
                 IF es[i].i = k - 1 THEN es[i+1].ev = "fallback"
                 ELSE IF cfg.wait > 0
                 THEN es[i+1].ev = "wake" /\ es[i+1].i = es[i].i + 1
                 ELSE es[i+1].ev = "exec" /\ es[i+1].i = es[i].i + 1
           /\ (es[i].ev = "exec" /\ es[i].x = "throw" /\ i = Len(es)
                 /\ es[i].i < k - 1 /\ cfg.wait > 0 /\ stack # <<>>
                 /\ Top.kind = "node" /\ Top.id = n) => Top.pc = "wait"
           /\ es[i].ev = "wake" =>
                 /\ cfg.wait > 0 /\ i > 1
                 /\ es[i-1].ev = "exec" /\ es[i-1].x = "throw" /\ es[i-1].i < k - 1
           /\ (es[i].ev = "exec" /\ es[i].i > 0 /\ cfg.wait > 0) =>
                 i > 1 /\ es[i-1].ev = "wake"

\* two failed attempts, two delays, then a successful third attempt
C25_Witness ==
  /\ cfg.wait > 0 /\ cfg.maxRetries >= 2 /\ cfg.graph = "solo"
  /\ Len(Attempts("A")) = 3
  /\ Attempts("A")[1].x = "throw" /\ Attempts("A")[2].ev = "wake"
  /\ Attempts("A")[3].ev = "exec" /\ Attempts("A")[3].x = "ok" /\ Attempts("A")[3].i = 1

MixedGraph == cfg.family = "mixed" /\ cfg.graph \in {"branch", "loop"}
\* the errors a run can end with that do not come from the mix of classes:
\* the one exec's fallback rethrows, and the TypeError of a lookup that hit
\* an inherited member of the successors object
NotFromMix(e) == e.name \in {"none", "ExecError"} \/ e = TypeErr(ProtoValue)

\* C26: an AsyncFlow drives a graph of AsyncNode and synchronous Node
\* instances: an AsyncNode visit goes through the asynchronous lifecycle, a
\* Node visit through prep/exec/post inline with its retries, none fails
\* because of the mix, and the successor is chosen from the post result of
\* whichever lifecycle ran.
C26_MixedGraph ==
  MixedGraph =>
    /\ NotFromMix(exc)
    /\ \A r \in DOMAIN outcome : NotFromMix(outcome[r].err)
    /\ \A i \in DOMAIN trace :
         LET e == trace[i] IN
         /\ e.ev = "visit" =>
              /\ e.x = (IF IsAsyncNode(cfg.cls[e.node]) THEN "async" ELSE "sync")
              /\ i < Len(trace) => trace[i+1].ev = "prep" /\ trace[i+1].node = e.node
         /\ e.ev = "exec" =>
              /\ e.i < cfg.maxRetries
              /\ trace[i-1].ev \in {"prep", "exec"} /\ trace[i-1].node = e.node
              /\ trace[i-1].ev = "exec" => trace[i-1].x = "throw" /\ trace[i-1].i = e.i - 1
              /\ trace[i-1].ev = "prep" => e.i = 0
         /\ (e.ev = "post" /\ i < Len(trace)) =>
              /\ trace[i+1].ev = "next" /\ trace[i+1].node = e.node
              /\ trace[i+1].v = e.x
              /\ trace[i+1].x = GetNextNode(succ[e.node], e.x)
         /\ (e.ev = "next" /\ e.x \in NodeIds /\ i < Len(trace)) =>
              trace[i+1].ev = "visit" /\ trace[i+1].node = e.x

\* a synchronous node that succeeds on its second attempt, then an AsyncNode
C26_Witness ==
  /\ MixedGraph /\ cfg.graph = "branch" /\ cfg.cls["F"] = "AsyncFlow"
  /\ Finished /\ outcome[run].st = "returned"
  /\ \E i, j \in DOMAIN trace :
       /\ i < j
       /\ trace[i].ev = "visit" /\ trace[i].node = "A" /\ trace[i].x = "sync"
       /\ trace[i+2].ev = "exec" /\ trace[i+2].x = "throw"
       /\ trace[i+3].ev = "exec" /\ trace[i+3].x = "ok" /\ trace[i+3].i = 1
       /\ trace[j].ev = "visit" /\ trace[j].node = "B" /\ trace[j].x = "async"

\* the failed calls of execAsync made for item b
ItemFailures(b) == SelectSeq(ItemExecs(b), LAMBDA e : e.x = "throw")

\* C27: in a parallel batch node with maxRetries = k every item has k
\* attempts of its own: an item's fallback runs only after that item's own
\* k-th failed attempt, no item has more than k attempts, and no branch
\* completes without a successful attempt or a fallback call.
C27_OwnAttempts ==
  (ParBatchNode /\ InBatchNode /\ Top.prepRes.t = "arr" /\ cfg.maxRetries >= 1) =>
    \A b \in 1..Top.prepRes.n :
      /\ Len(ItemExecs(b)) <= cfg.maxRetries
      /\ ItemFallbacks(b) # <<>> => Len(ItemFailures(b)) = cfg.maxRetries
      /\ (b \in DOMAIN Top.branches /\ Top.branches[b].st = "done") =>
           OkAt(b) # 0 \/ ItemFallbacks(b) # <<>>

\* the call stacks of the orchestrations in progress: the running one, and
\* those of a parallel batch flow that are suspended or not yet started
ThreadStacks ==
  IF InJoin
  THEN {SubSeq(stack, 2, Len(stack))}
         \cup {stack[1].branches[i].stk : i \in DOMAIN stack[1].branches}
  ELSE {stack}
\* an orchestration that has called a node run is suspended on exactly that
\* run of its current node; between two runs nothing of a run is left
OneVisitAtATime(T) ==
  \A j \in DOMAIN T :
    T[j].kind = "orch" =>
      /\ T[j].pc = "wait" =>
           /\ j < Len(T)
           /\ T[j + 1].kind \in {"node", "flow"}
           /\ T[j + 1].id = T[j].curr
      /\ T[j].pc \in {"visit", "next"} => j = Len(T)
\* the events of one visit are contiguous: every phase event follows an event
\* of the same visit, every visit follows the start of its orchestration or
\* the step that chose its node, every step follows the post of its node
FollowsOwnVisit(p, e) ==
  /\ e.ev = "visit" => p.ev = "orch" \/ (p.ev = "next" /\ p.x = e.node)
  /\ e.ev \in {"prep", "flowprep"} => p.ev = "visit" /\ p.node = e.node
  /\ e.ev \in {"exec", "wake", "fallback", "post"} =>
       p.node = e.node /\ p.ev \in {"prep", "exec", "wake", "fallback"}
  /\ e.ev = "flowpost" => p.node = e.node /\ p.ev \in {"flowprep", "orch", "orchret"}
  /\ e.ev = "next" => p.ev \in {"post", "flowpost"} /\ p.node = e.node /\ p.x = e.v
\* C28: within one orchestration node visits are strictly sequential: the
\* orchestration is suspended on the run of its current node until all its
\* phases, retries and delays are over, the phases of a visit are contiguous
\* in the history and the next visit is of the successor chosen from the post
\* result of the previous one (in a parallel batch flow, per branch)
C28_SequentialVisits ==
  /\ exc = NoErr => \A T \in ThreadStacks : OneVisitAtATime(T)
  /\ \A i \in 1..Len(trace) :
       trace[i].ev = "next" =>
         trace[i].x = GetNextNode(succ[trace[i].node], trace[i].v)
  /\ cfg.family \notin BatchFamilies =>
       \A i \in 2..Len(trace) : FollowsOwnVisit(trace[i - 1], trace[i])
\* a second visit of an orchestration begins after a first visit whose node
\* was retried after a delay
C28_Witness ==
  /\ \E i, j, l \in 1..Len(trace) :
       /\ i < j /\ j < l
       /\ trace[i].ev = "wake"
       /\ trace[j].ev = "next" /\ trace[j].node = trace[i].node /\ trace[j].x # Null
       /\ trace[l].ev = "prep" /\ trace[l].node = trace[j].x
  /\ exc = NoErr

\* the events of the work done for one item of a batch node
IsItemEvent(e) == e.ev \in {"bexec", "wake", "bwake", "bfallback"}
\* the event with which the work for item b produced its result
ItemResultEvent(e, b) ==
  /\ e.ev \in {"bexec", "bfallback"} /\ e.m = b
  /\ (e.ev = "bexec" /\ e.x = "ok") \/ (e.ev = "bfallback" /\ e.x = "value")
AsyncSeqBatchNode == cfg.cls[cfg.top] = "AsyncBatchNode"
AsyncSeqBatchFlow == cfg.top = "F" /\ cfg.cls["F"] = "AsyncBatchFlow"
OrchReturnsBefore(j) ==
  Cardinality({i \in 1..(j - 1) : trace[i].ev = "orchret" /\ trace[i].node = "F"})
\* C29: the sequential asynchronous batch variants never overlap work. In
\* AsyncBatchNode an attempt for an item is made only when every earlier item
\* has produced its result, after all its attempts, delays and fallback, and
\* nothing is done for an earlier item afterwards; in AsyncBatchFlow the
\* orchestration for parameter set i+1 starts right after the orchestration
\* for set i has returned, with nothing of it left running.
C29_NoOverlap ==
  /\ (AsyncSeqBatchNode /\ InBatchNode) =>
       /\ Top.pc \in {"loop", "wait", "fallback"} => Len(Top.results) = Top.bi - 1
       /\ \A j \in 1..Len(trace) :
            IsItemEvent(trace[j]) =>
              /\ \A i \in 1..(j - 1) : IsItemEvent(trace[i]) => trace[i].m <= trace[j].m
              /\ cfg.maxRetries >= 1 =>
                   \A b \in 1..(trace[j].m - 1) :
                     \E i \in 1..(j - 1) : ItemResultEvent(trace[i], b)
  /\ AsyncSeqBatchFlow =>
       /\ (Running /\ stack[1].pc = "iter") => Len(stack) = 1
       /\ \A j \in 1..Len(trace) :
            (trace[j].ev = "orch" /\ trace[j].node = "F" /\ trace[j].i >= 2) =>
              /\ trace[j - 1].ev = "orchret" /\ trace[j - 1].node = "F"
              /\ OrchReturnsBefore(j) = trace[j].i - 1
\* an AsyncBatchNode whose first item was retried after a delay attempts its
\* second item
C29_Witness ==
  /\ AsyncSeqBatchNode /\ cfg.wait > 0
  /\ \E i, j \in 1..Len(trace) :
       /\ i < j
       /\ trace[i].ev = "wake" /\ trace[i].m = 1
       /\ trace[j].ev = "bexec" /\ trace[j].m = 2

ParallelFlowRun == IsParallelFlow(cfg.cls[cfg.top]) /\ run >= 1
\* the events at which an orchestration ended with an error: the default
\* fallback rethrew
IsFailure(e) == e.ev = "fallback" /\ e.x = "raise"
Failures == SelectSeq(trace, IsFailure)
\* an orchestration that has not got past its first await
AtFirstAwait(T) ==
  /\ Len(T) \in {1, 2}
  /\ T[1].kind = "orch" /\ T[1].lastAction = Null
  /\ T[1].curr = nodes[cfg.top].startNode
  /\ Len(T) = 2 => T[2].kind = "node" /\ T[2].pc \in {"prep", "begin"}
\* C30: AsyncParallelBatchFlow starts the orchestration of every parameter
\* set before it waits on any of them: while one is still to be started none
\* has got past its first await, and every one has been started before any
\* node executes. It joins all-or-nothing: postAsync is invoked only when
\* every orchestration has returned and none has failed; once one has failed
\* postAsync is never invoked and the call can only end by rejecting with the
\* error of the first failure.
C30_ParallelJoin ==
  ParallelFlowRun =>
    LET n == IF shared[run].batch.t = "arr" THEN shared[run].batch.n ELSE 0 IN
    /\ MustYield =>
         /\ \A i \in DOMAIN stack[1].branches :
              /\ stack[1].branches[i].st \in {"new", "run"}
              /\ i # stack[1].bi => AtFirstAwait(stack[1].branches[i].stk)
         /\ AtFirstAwait(Tail(stack))
    /\ \A i \in DOMAIN trace :
         trace[i].ev \in {"exec", "fallback", "post", "next", "orchret"} =>
           Len(SelectSeq(SubSeq(trace, 1, i), LAMBDA e : e.ev = "orch")) = n
    /\ TopPosts # <<>> =>
         /\ Failures = <<>>
         /\ Len(TopOrch) = n /\ Len(TopOrchRet) = n
    /\ Failures # <<>> =>
         /\ TopPosts = <<>>
         /\ Finished =>
              outcome[run] = [st |-> "threw", v |-> Null,
                              err |-> ExecErr(Failures[1].node, cfg.maxRetries - 1)]
         /\ (InJoin /\ exc = NoErr) =>
              stack[1].err = ExecErr(Failures[1].node, cfg.maxRetries - 1)
\* two orchestrations failed, in different nodes, before the call rejected
C30_Witness ==
  /\ ParallelFlowRun /\ Finished /\ outcome[run].st = "threw"
  /\ Len(Failures) = 2 /\ Failures[1].node # Failures[2].node
  /\ Len(TopOrch) = 2

\* the number of calls of exec made in the visit of node n in progress at
\* position j of the history, before that position
CallsBefore(j, n) ==
  LET preps == {i \in 1..(j - 1) : trace[i].ev = "prep" /\ trace[i].node = n}
      from == IF preps = {} THEN 0 ELSE CHOOSE i \in preps : \A l \in preps : l <= i
  IN Cardinality({i \in (from + 1)..(j - 1) : trace[i].ev = "exec" /\ trace[i].node = n})
\* the number of calls of exec made for item b before position j
ItemCallsBefore(j, b) ==
  Cardinality({i \in 1..(j - 1) : trace[i].ev = "bexec" /\ trace[i].m = b})
\* the attempt index of the last call of exec in the history
LastCallIndex(evs) ==
  LET calls == {i \in 1..Len(trace) : trace[i].ev \in evs}
  IN trace[CHOOSE i \in calls : \A l \in calls : l <= i].i
RunsAlone == stack # <<>> /\ Len(stack) = 1 /\ exc = NoErr /\ cfg.maxRetries >= 1
\* C31: in a retrying node run standalone or for the elements of a
\* sequential batch, the i-th call of exec (counted from 0) observes
\* curRetry = i, and when _exec has returned curRetry is the index of the
\* last call made: that of the successful call, or maxRetries - 1 after the
\* fallback.
C31_CurRetryTracksAttempt ==
  /\ (cfg.graph \in {"solo", "lone"} /\ ~IsBatchNode(cfg.cls[cfg.top])) =>
       /\ \A j \in 1..Len(trace) :
            trace[j].ev = "exec" => trace[j].i = CallsBefore(j, trace[j].node)
       /\ (RunsAlone /\ Top.kind = "node" /\ Top.pc = "post") =>
            /\ InstCurRetry(Top) = LastCallIndex({"exec"})
            /\ trace[Len(trace)].ev = "fallback" => InstCurRetry(Top) = cfg.maxRetries - 1
       /\ (Finished /\ outcome[run].st = "returned" /\ cfg.maxRetries >= 1) =>
            nodes[cfg.top].curRetry = LastCallIndex({"exec"})
  /\ SeqBatchNode =>
       /\ \A j \in 1..Len(trace) :
            trace[j].ev = "bexec" => trace[j].i = ItemCallsBefore(j, trace[j].m)
       /\ (RunsAlone /\ Top.kind = "bnode" /\ Top.pc = "item" /\ Top.bi > 1) =>
            /\ InstCurRetry(Top) = LastCallIndex({"bexec"})
            /\ trace[Len(trace)].ev = "bfallback" => InstCurRetry(Top) = cfg.maxRetries - 1
\* a standalone node has returned after its second call of exec succeeded,
\* and the canonical object keeps that call's index
C31_Witness ==
  /\ cfg.graph \in {"solo", "lone"} /\ ~IsBatchNode(cfg.cls[cfg.top])
  /\ Finished /\ outcome[run].st = "returned"
  /\ nodes[cfg.top].curRetry = 1 /\ cfg.maxRetries >= 2
  /\ \E j \in 1..Len(trace) : trace[j].ev = "exec" /\ trace[j].i = 1 /\ trace[j].x = "ok"

\* C32: the clone a flow makes for a visit has its own successor mapping: a
\* successor the node registers on itself during a phase of a flow run
\* leaves the canonical node's successors as the application wired them, so
\* the lookup after that visit and every later one follow the original edge.
C32_CloneOwnSuccessors ==
  (cfg.top = "F" /\ run >= 1) =>
    /\ succ = SuccOf(cfg.graph)
    /\ \A i \in 1..Len(trace) :
         trace[i].ev = "next" =>
           trace[i].x = GetNextNode(SuccOf(cfg.graph)[trace[i].node], trace[i].v)

\* the position of the event that began the orchestration in progress at
\* position j of the history (0: none)
OrchBefore(j) ==
  LET os == {i \in 1..(j - 1) : trace[i].ev = "orch"}
  IN IF os = {} THEN 0 ELSE CHOOSE i \in os : \A l \in os : l <= i
\* C33: within one orchestration every visit starts its prep with the merged
\* parameters computed when the orchestration began, whatever earlier visits
\* did to their own parameters (this.setParams, or a key written into
\* this.params), a second visit of the same node included.
C33_VisitParams ==
  IsFlow(cfg.cls[cfg.top]) =>
    \A j \in 1..Len(trace) :
      (trace[j].ev = "prep" /\ OrchBefore(j) # 0) =>
        trace[j].m = trace[OrchBefore(j)].m

SyncWaitNode == cfg.wait > 0 /\ cfg.family = "sync" /\ ~IsBatchNode(cfg.cls[cfg.top])
\* the failed attempts of the current run that were not the last one
RetriedFailures ==
  {j \in 1..Len(trace) :
     trace[j].ev = "exec" /\ trace[j].x = "throw" /\ trace[j].i < cfg.maxRetries - 1}
SyncWaitWarnings == SelectSeq(warnings, LAMBDA w : w = "Synchronous wait")
\* C34: a synchronous Node with wait > 0 warns once and sets one timer for
\* each failed attempt that is not the last; the next attempt follows at
\* once, while the timer is still pending; exec is attempted and the fallback
\* is called exactly as with wait = 0: attempts numbered from 0, at most
\* maxRetries of them, the fallback only after the failure of the last one.
C34_SyncWait ==
  (SyncWaitNode /\ run >= 1) =>
    /\ Len(SyncWaitWarnings) = Cardinality(RetriedFailures)
    /\ (run = 1 /\ stack # <<>>) => timers = Cardinality(RetriedFailures)
    /\ timers <= run * (cfg.maxRetries - 1)
    /\ \A j \in 1..Len(trace) :
         /\ trace[j].ev # "wake"
         /\ (j \in RetriedFailures /\ j < Len(trace)) =>
              /\ trace[j + 1].ev = "exec" /\ trace[j + 1].node = trace[j].node
              /\ trace[j + 1].i = trace[j].i + 1
         /\ trace[j].ev = "exec" =>
              /\ trace[j].i = CallsBefore(j, trace[j].node)
              /\ trace[j].i < cfg.maxRetries
         /\ trace[j].ev = "fallback" =>
              /\ trace[j - 1].ev = "exec" /\ trace[j - 1].x = "throw"
              /\ trace[j - 1].i = cfg.maxRetries - 1
         /\ (trace[j].ev = "exec" /\ trace[j].x = "throw" /\ j < Len(trace)
               /\ trace[j].i = cfg.maxRetries - 1) => trace[j + 1].ev = "fallback"
\* the second attempt has been made while the timer set after the first
\* failure is pending
C34_Witness ==
  /\ SyncWaitNode /\ run = 1 /\ stack # <<>> /\ timers = 1
  /\ Len(SyncWaitWarnings) = 1
  /\ trace[Len(trace)].ev = "exec" /\ trace[Len(trace)].i = 1

\* C35: a node constructed with maxRetries <= 0 is accepted; its _exec calls
\* neither exec nor the fallback hook, raises no error and returns no value,
\* and post is still invoked, with that empty execution result.
C35_NoAttempts ==
  (cfg.maxRetries <= 0 /\ ~IsBatchNode(cfg.cls[cfg.top]) /\ cfg.family \in {"sync", "async"}) =>
    /\ exc = NoErr
    /\ \A j \in 1..Len(trace) :
         /\ trace[j].ev \in {"prep", "post"}
         /\ trace[j].ev = "post" => trace[j].v = Null /\ trace[j - 1].ev = "prep"
    /\ (stack # <<>> /\ Top.pc = "post") => Top.execRes = Null
    /\ \A r \in DOMAIN outcome : outcome[r].st = "returned"
    /\ Finished => trace[Len(trace)].ev = "post"
\* a node constructed with maxRetries = -1 has run and post has returned
C35_Witness ==
  /\ cfg.maxRetries < 0 /\ Finished /\ outcome[run].st = "returned"
  /\ Len(trace) = 2 /\ trace[2].ev = "post" /\ trace[2].v = Null

\* the activations of the nodes a flow is visiting
VisitFrames == {j \in 1..Len(stack) : stack[j].kind = "node" /\ stack[j].clone}
\* C36: what a node assigns on itself while a flow drives it (the retry
\* counter, an attribute stored in prep) is written to the clone of that
\* visit only: the later phases of the visit see the value, the canonical
\* node keeps its own attribute values during and after the run, and a later
\* visit of the node, in the same run or in a later one, starts from the
\* canonical values.
C36_CloneAttributes ==
  IsFlow(cfg.cls[cfg.top]) =>
    /\ \A n \in NodeIds : nodes[n].curRetry = 0 /\ nodes[n].stash = Null
    /\ \A j \in VisitFrames :
         /\ stack[j].pc = "prep" =>
              /\ stack[j].curRetry = nodes[stack[j].id].curRetry
              /\ stack[j].stash = nodes[stack[j].id].stash
         /\ (stack[j].pc # "prep" /\ cfg.hook[stack[j].id] = "stash") =>
              InstStash(stack[j]) = StashVal(run)
         /\ (stack[j].pc = "post" /\ exc = NoErr /\ cfg.maxRetries >= 1) =>
              InstCurRetry(stack[j]) = LastCallIndex({"exec"})
\* a visit of a node begins from the canonical values after an earlier visit
\* of the same run stored an attribute on its clone
C36_Witness ==
  /\ IsFlow(cfg.cls[cfg.top]) /\ cfg.hook["A"] = "stash"
  /\ stack # <<>> /\ Top.kind = "node" /\ Top.clone /\ Top.id = "A" /\ Top.pc = "prep"
  /\ Top.stash = Null
  /\ \E j \in 1..Len(trace) : trace[j].ev = "post" /\ trace[j].node = "A"

NestedRun == cfg.graph = "nested" /\ run >= 1
\* the position of the event that began the parent's orchestration in
\* progress at position j of the history (0: none)
TopOrchBefore(j) ==
  LET os == {i \in 1..(j - 1) : trace[i].ev = "orch" /\ trace[i].node = cfg.top}
  IN IF os = {} THEN 0 ELSE CHOOSE i \in os : \A l \in os : l <= i
\* C37: when a flow is a node of a parent flow, its clone's params are
\* replaced by the parent run's merged parameters before it orchestrates: the
\* inner orchestration and the nodes inside it run with the parent's mapping,
\* a key set only on the inner flow's params is absent for them, and the
\* inner flow's canonical params stay as the application set them.
C37_InnerFlowParams ==
  NestedRun =>
    /\ nodes["G"].params = Ref("G") /\ pheap[Ref("G")] = OwnMap
    /\ \A j \in 1..Len(trace) :
         /\ (trace[j].ev = "orch" /\ trace[j].node = "G") =>
              trace[j].m = trace[TopOrchBefore(j)].m
         /\ (trace[j].ev = "prep" /\ trace[j].node \in {"A", "B"}) =>
              /\ trace[j].m = trace[TopOrchBefore(j)].m
              /\ trace[j].m.tag = Absent
\* a node inside the inner flow has run: the inner flow's own params have
\* the key "tag", the parent's have not
C37_Witness ==
  /\ NestedRun /\ Finished /\ outcome[run].st = "returned"
  /\ pheap[Ref("G")].tag = OwnVal /\ pheap[Ref("F")].tag = Absent
  /\ \E j \in 1..Len(trace) :
       trace[j].ev = "prep" /\ trace[j].node = "B" /\ trace[j].m.tag = Absent

\* the step in which await Promise.all(...) of a parallel batch flow rejects
\* and the call of run() rejects to the application
RejectsNow == InJoin /\ Len(outcome') = Len(outcome) + 1
\* the orchestrations of the flow that are suspended at an await
SuspendedSiblings ==
  {i \in DOMAIN stack[1].branches : i # stack[1].bi /\ stack[1].branches[i].st = "run"}
PhaseCount(ev) == Cardinality({i \in 1..Len(trace) : trace[i].ev = ev /\ trace[i].node = "A"})
\* the step is the post phase of node A
PostOfA ==
  /\ stack # <<>> /\ Top.kind = "node" /\ Top.id = "A" /\ Top.pc = "post"
  /\ Len(trace') = Len(trace) + 1 /\ trace'[Len(trace')].ev = "post"
\* the step hands control from one orchestration of a parallel batch flow
\* to another
SwitchesBranch == InBranches /\ stack' # <<>> /\ stack'[1].bi # stack[1].bi
\* C39: the orchestrations of an AsyncParallelBatchFlow share one shared
\* context and interleave only where one of them is suspended or has
\* returned. An increment of a shared counter done inside one phase is never
\* lost: the counter equals the number of times the phase has run. When the
\* counter is read in prep and written in post, the write stores the value
\* read plus one whatever the counter has become in between, so the counter
\* may stay below the number of increments.
C39_SharedCounter ==
  /\ [](run >= 1 =>
         /\ cfg.prepKind["A"] = "count" =>
              /\ shared[run].counter = PhaseCount("prep")
              /\ (Finished /\ outcome[run].st = "returned"
                    /\ shared[run].batch.t = "arr") =>
                   shared[run].counter = shared[run].batch.n
         /\ cfg.prepKind["A"] = "read" =>
              /\ shared[run].counter <= PhaseCount("post")
              /\ PhaseCount("post") >= 1 => shared[run].counter >= 1)
  /\ [][/\ SwitchesBranch =>
            Len(stack) = 1 \/ (Top.kind = "node" /\ Top.pc = "begin")
        /\ (PostOfA /\ cfg.prepKind["A"] = "read") =>
            shared'[run].counter = Top.prepRes.n + 1]_vars
\* two orchestrations have each read the counter in prep and written it in
\* post, the call has returned, and the counter is 1
C39_Witness ==
  /\ Finished /\ outcome[run].st = "returned"
  /\ cfg.prepKind["A"] = "read" /\ shared[run].batch = [t |-> "arr", n |-> 2]
  /\ PhaseCount("post") = 2 /\ shared[run].counter = 1

\* a run of the example search agent
AgentRun == cfg.graph = "agent" /\ run >= 1
\* C40: in one run of the example search agent the number of visits to the
\* search node never exceeds the maxAgentSearchAttempts the application has
\* placed in the shared context.
C40_SearchBound ==
  AgentRun => Visits(SearchNode) <= shared[run].maxAgentSearchAttempts.n
\* what the decide node enforces: at most DefaultMaxAttempts searches in a
\* run, the decision being 'answer' once that many have been made
AgentSearchLimit ==
  AgentRun =>
    /\ Visits(SearchNode) <= DefaultMaxAttempts
    /\ shared[run].searchAttempts <= DefaultMaxAttempts
    /\ \A j \in 1..Len(trace) :
         (trace[j].ev = "post" /\ trace[j].node = DecideNode
            /\ Cardinality({i \in 1..j : trace[i].ev = "post" /\ trace[i].node = SearchNode})
                 >= DefaultMaxAttempts)
           => trace[j].x = "answer"
\* every run of the agent ends
AgentTerminates == [](stack # <<>> => <>(stack = <<>>))

====
